---- MODULE Spec2Model ----
(***************************************************************************)
(* Model of the ROM validation pipeline of rom-validate-web:               *)
(*   src/src/utils/romValidator.ts  (validateROM, validateROMs,            *)
(*                                   detectPlatformFromName)               *)
(*   src/src/utils/datLoader.ts     (two-tier catalog cache and loaders)   *)
(*                                                                         *)
(* Strings are sequences of characters; a character is a one-element       *)
(* token such as "a" or ".".  An optional value (undefined in the source)  *)
(* is a tuple of length 0 or 1.                                            *)
(***************************************************************************)
EXTENDS Integers, Sequences, FiniteSets, TLC

(***************************************************************************)
(* Bounds of the model                                                     *)
(***************************************************************************)
MaxFileNameLen == 3
MaxEntryNameLen == 4
MaxEntries == 2

(***************************************************************************)
(* JavaScript string primitives                                            *)
(***************************************************************************)
UpperChars == <<"A","B","C","D","E","F","G","H","I","J","K","L","M",
                "N","O","P","Q","R","S","T","U","V","W","X","Y","Z">>
LowerChars == <<"a","b","c","d","e","f","g","h","i","j","k","l","m",
                "n","o","p","q","r","s","t","u","v","w","x","y","z">>
DigitChars == {"0","1","2","3","4","5","6","7","8","9"}

\* U+0130 (capital I with dot above) is the one BMP character whose
\* String.prototype.toLowerCase result is two code units: U+0069 U+0307.
CapitalIDot == "U+0130"
CombiningDot == "U+0307"

ToLowerChar(c) ==
  IF \E k \in 1..26 : UpperChars[k] = c
    THEN <<LowerChars[CHOOSE k \in 1..26 : UpperChars[k] = c]>>
    ELSE IF c = CapitalIDot THEN <<"i", CombiningDot>> ELSE <<c>>

ToUpperChar(c) ==
  IF \E k \in 1..26 : LowerChars[k] = c
    THEN UpperChars[CHOOSE k \in 1..26 : LowerChars[k] = c]
    ELSE c

RECURSIVE ToLowerCase(_)
ToLowerCase(s) ==
  IF s = <<>> THEN <<>> ELSE ToLowerChar(Head(s)) \o ToLowerCase(Tail(s))

\* s.lastIndexOf("."), 0-based, -1 when there is none
LastIndexOfDot(s) ==
  IF \E k \in 1..Len(s) : s[k] = "."
    THEN (CHOOSE k \in 1..Len(s) :
            s[k] = "." /\ \A j \in (k+1)..Len(s) : s[j] # ".") - 1
    ELSE -1

\* s.substring(start): a negative start is clamped to 0, one past the end
\* yields the empty string
Substring(s, start) ==
  LET b == IF start < 0 THEN 0 ELSE IF start > Len(s) THEN Len(s) ELSE start
  IN  SubSeq(s, b + 1, Len(s))

\* s.endsWith(suffix)
EndsWith(s, suffix) ==
  /\ Len(suffix) <= Len(s)
  /\ SubSeq(s, Len(s) - Len(suffix) + 1, Len(s)) = suffix

\* s.startsWith(prefix)
StartsWith(s, prefix) ==
  /\ Len(prefix) <= Len(s)
  /\ SubSeq(s, 1, Len(prefix)) = prefix

\* s.includes(sub)
Includes(s, sub) ==
  \E k \in 0..(Len(s) - Len(sub)) : SubSeq(s, k + 1, k + Len(sub)) = sub

\* character classes of the regular expressions used by validateROM
IsSpaceChar(c) == c \in {" ", "TAB"}
IsWordChar(c) ==
  \/ \E k \in 1..26 : UpperChars[k] = c \/ LowerChars[k] = c
  \/ c \in DigitChars
  \/ c = "_"
IsSafeChar(c) ==
  IsWordChar(c) \/ IsSpaceChar(c) \/ c \in {"-", ".", "(", ")", "[", "]"}

\* s.trim()
RECURSIVE TrimLeft(_)
TrimLeft(s) ==
  IF s # <<>> /\ IsSpaceChar(Head(s)) THEN TrimLeft(Tail(s)) ELSE s
RECURSIVE TrimRight(_)
TrimRight(s) ==
  IF s # <<>> /\ IsSpaceChar(s[Len(s)])
    THEN TrimRight(SubSeq(s, 1, Len(s) - 1)) ELSE s
Trim(s) == TrimRight(TrimLeft(s))

\* s.replace(/\s+/g, " ")
RECURSIVE CollapseSpaces(_)
CollapseSpaces(s) ==
  IF s = <<>> THEN <<>>
  ELSE IF IsSpaceChar(Head(s))
    THEN <<" ">> \o CollapseSpaces(TrimLeft(Tail(s)))
    ELSE <<Head(s)>> \o CollapseSpaces(Tail(s))

\* s.replace(/[^\w\s\-\.()[\]]/g, "")
RemoveSpecialChars(s) == SelectSeq(s, IsSafeChar)

\* s.replace(/\.[^/.]+$/, ""): drops the text from the last "." to the end
\* when at least one character follows that "." and none of them is "/"
StripExtension(s) ==
  LET p == LastIndexOfDot(s)
  IN  IF /\ p >= 0
         /\ p + 1 < Len(s)
         /\ \A j \in (p + 2)..Len(s) : s[j] # "/"
        THEN SubSeq(s, 1, p)
        ELSE s

(***************************************************************************)
(* String literals of the source, spelled as character sequences           *)
(***************************************************************************)
\* the file extensions named by EXTENSION_MAP, extensionMap and the filters
Ext == [
  egba |-> <<".","g","b","a">>,
  egb |-> <<".","g","b">>,
  egbc |-> <<".","g","b","c">>,
  ends |-> <<".","n","d","s">>,
  e3ds |-> <<".","3","d","s">>,
  en64 |-> <<".","n","6","4">>,
  ez64 |-> <<".","z","6","4">>,
  esmc |-> <<".","s","m","c">>,
  esfc |-> <<".","s","f","c">>,
  enes |-> <<".","n","e","s">>,
  eiso |-> <<".","i","s","o">>,
  ecso |-> <<".","c","s","o">>,
  epbp |-> <<".","p","b","p">>,
  egcm |-> <<".","g","c","m">>,
  eciso |-> <<".","c","i","s","o">>,
  ewbfs |-> <<".","w","b","f","s">>,
  ebin |-> <<".","b","i","n">>,
  emd |-> <<".","m","d">>,
  egen |-> <<".","g","e","n">>,
  esmd |-> <<".","s","m","d">>,
  ecdi |-> <<".","c","d","i">>,
  egdi |-> <<".","g","d","i">>,
  ecue |-> <<".","c","u","e">>]

\* the substrings detectPlatformFromName searches the lowercased name for
Kw == [
  dsi |-> <<"d","s","i">>,
  download |-> <<"d","o","w","n","l","o","a","d">>,
  demo |-> <<"d","e","m","o">>,
  gc |-> <<"g","c">>,
  gamecube |-> <<"g","a","m","e","c","u","b","e">>,
  ps2 |-> <<"p","s","2">>,
  playstation2 |-> <<"p","l","a","y","s","t","a","t","i","o","n"," ","2">>,
  wii |-> <<"w","i","i">>,
  nintendowii |-> <<"n","i","n","t","e","n","d","o"," ","w","i","i">>,
  psp |-> <<"p","s","p">>,
  ps1 |-> <<"p","s","1">>,
  psx |-> <<"p","s","x">>,
  playstation |-> <<"p","l","a","y","s","t","a","t","i","o","n">>,
  dreamcast |-> <<"d","r","e","a","m","c","a","s","t">>,
  dc |-> <<"d","c">>,
  nintendods |-> <<"n","i","n","t","e","n","d","o"," ","d","s">>,
  nintendo3ds |-> <<"n","i","n","t","e","n","d","o"," ","3","d","s">>,
  gameboyadvance |-> <<"g","a","m","e"," ","b","o","y"," ","a","d","v","a","n","c","e">>,
  gameboycolor |-> <<"g","a","m","e"," ","b","o","y"," ","c","o","l","o","r">>,
  gameboy |-> <<"g","a","m","e"," ","b","o","y">>,
  nintendo64 |-> <<"n","i","n","t","e","n","d","o"," ","6","4">>,
  supernintendo |-> <<"s","u","p","e","r"," ","n","i","n","t","e","n","d","o">>,
  nintendoentertainment |-> <<"n","i","n","t","e","n","d","o"," ","e","n","t","e","r","t","a","i","n","m","e","n","t">>,
  segagenesis |-> <<"s","e","g","a"," ","g","e","n","e","s","i","s">>,
  megadrive |-> <<"m","e","g","a"," ","d","r","i","v","e">>]

\* the sentinel of calculateFileHashes for a digest that could not be computed
Unavailable == <<"u","n","a","v","a","i","l","a","b","l","e">>

(***************************************************************************)
(* Catalog source registry (datLoader.ts) and classifier (romValidator.ts) *)
(***************************************************************************)
\* PLATFORMS, in key order; the path is kept as its catalog family
\* ("no-intro" or "redump" directory), the only part the validator reads
PLATFORMS == <<
  [name |-> "Game Boy Advance",              family |-> "no-intro"],
  [name |-> "Game Boy",                      family |-> "no-intro"],
  [name |-> "Game Boy Color",                family |-> "no-intro"],
  [name |-> "Nintendo DS",                   family |-> "no-intro"],
  [name |-> "Nintendo DS Download Play",     family |-> "no-intro"],
  [name |-> "Nintendo DSi",                  family |-> "no-intro"],
  [name |-> "Nintendo 3DS",                  family |-> "no-intro"],
  [name |-> "Nintendo 64",                   family |-> "no-intro"],
  [name |-> "Super Nintendo",                family |-> "no-intro"],
  [name |-> "Nintendo Entertainment System", family |-> "no-intro"],
  [name |-> "PlayStation",                   family |-> "redump"],
  [name |-> "PlayStation 2",                 family |-> "redump"],
  [name |-> "PSP",                           family |-> "no-intro"],
  [name |-> "GameCube",                      family |-> "redump"],
  [name |-> "Wii",                           family |-> "redump"],
  [name |-> "Sega Genesis",                  family |-> "no-intro"],
  [name |-> "Dreamcast",                     family |-> "redump"] >>

PlatformNames == [k \in 1..Len(PLATFORMS) |-> PLATFORMS[k].name]

\* BUNDLED_DATS, in key order
BUNDLED_DATS == << "Nintendo DS Encrypted (Bundled)" >>

\* EXTENSION_MAP of datLoader.ts: extension, whether the value is an array,
\* and the platforms in their registry order
EXTENSION_MAP == <<
  [ext |-> Ext.egba,  isArray |-> FALSE, platforms |-> <<"Game Boy Advance">>],
  [ext |-> Ext.egb,   isArray |-> FALSE, platforms |-> <<"Game Boy">>],
  [ext |-> Ext.egbc,  isArray |-> FALSE, platforms |-> <<"Game Boy Color">>],
  [ext |-> Ext.ends,  isArray |-> TRUE,
   platforms |-> <<"Nintendo DS", "Nintendo DS Download Play", "Nintendo DSi">>],
  [ext |-> Ext.e3ds,  isArray |-> FALSE, platforms |-> <<"Nintendo 3DS">>],
  [ext |-> Ext.en64,  isArray |-> FALSE, platforms |-> <<"Nintendo 64">>],
  [ext |-> Ext.ez64,  isArray |-> FALSE, platforms |-> <<"Nintendo 64">>],
  [ext |-> Ext.esmc,  isArray |-> FALSE, platforms |-> <<"Super Nintendo">>],
  [ext |-> Ext.esfc,  isArray |-> FALSE, platforms |-> <<"Super Nintendo">>],
  [ext |-> Ext.enes,  isArray |-> FALSE,
   platforms |-> <<"Nintendo Entertainment System">>],
  [ext |-> Ext.eiso,  isArray |-> TRUE,
   platforms |-> <<"PlayStation 2", "Wii", "PSP", "GameCube">>],
  [ext |-> Ext.ecso,  isArray |-> FALSE, platforms |-> <<"PSP">>],
  [ext |-> Ext.epbp,  isArray |-> FALSE, platforms |-> <<"PSP">>],
  [ext |-> Ext.egcm,  isArray |-> FALSE, platforms |-> <<"GameCube">>],
  [ext |-> Ext.eciso, isArray |-> FALSE, platforms |-> <<"GameCube">>],
  [ext |-> Ext.ewbfs, isArray |-> FALSE, platforms |-> <<"Wii">>],
  [ext |-> Ext.ebin,  isArray |-> TRUE,
   platforms |-> <<"PlayStation", "Dreamcast", "PlayStation 2">>],
  [ext |-> Ext.emd,   isArray |-> FALSE, platforms |-> <<"Sega Genesis">>],
  [ext |-> Ext.egen,  isArray |-> FALSE, platforms |-> <<"Sega Genesis">>],
  [ext |-> Ext.esmd,  isArray |-> FALSE, platforms |-> <<"Sega Genesis">>],
  [ext |-> Ext.ecdi,  isArray |-> FALSE, platforms |-> <<"Dreamcast">>],
  [ext |-> Ext.egdi,  isArray |-> FALSE, platforms |-> <<"Dreamcast">>] >>

\* extensionMap, the copy local to detectPlatformFromName: EXTENSION_MAP
\* without the ".iso" and ".bin" rows
extensionMap ==
  SelectSeq(EXTENSION_MAP, LAMBDA r : r.ext \notin {Ext.eiso, Ext.ebin})

\* map[ext]: the row of a table for a key, as an optional value
Lookup(map, ext) ==
  IF \E k \in 1..Len(map) : map[k].ext = ext
    THEN <<map[CHOOSE k \in 1..Len(map) : map[k].ext = ext]>>
    ELSE <<>>

\* name.toLowerCase().substring(name.lastIndexOf(".")): the index is taken
\* in the original name and applied to the lowercased one
FileExt(name) == Substring(ToLowerCase(name), LastIndexOfDot(name))

\* getPlatformsForFile
getPlatformsForFile(filename) ==
  LET platforms == Lookup(EXTENSION_MAP, FileExt(filename))
  IN  IF platforms = <<>> THEN <<>> ELSE platforms[1].platforms

\* size / (1024 * 1024) compared with a whole number of megabytes; a size is
\* [mb, rem] standing for mb * 1048576 + rem bytes with 0 <= rem < 1048576
SizeMBGreater(size, n) == size.mb > n \/ (size.mb = n /\ size.rem > 0)
SizeMBAtLeast(size, n) == size.mb >= n

\* detectPlatformFromName
detectPlatformFromName(filename, size) ==
  LET name == ToLowerCase(filename)
      ext == FileExt(filename)
      mappedPlatform == Lookup(extensionMap, ext)
  IN
  IF mappedPlatform # <<>> /\ mappedPlatform[1].isArray /\ ext = Ext.ends
    THEN IF Includes(name, Kw.dsi) THEN "Nintendo DSi"
         ELSE IF Includes(name, Kw.download) \/ Includes(name, Kw.demo)
           THEN "Nintendo DS Download Play"
         ELSE "Nintendo DS"
  ELSE IF mappedPlatform # <<>> /\ ~mappedPlatform[1].isArray
    THEN mappedPlatform[1].platforms[1]
  ELSE IF ext = Ext.eiso
    THEN IF Includes(name, Kw.gc) \/ Includes(name, Kw.gamecube)
           THEN "GameCube"
         ELSE IF Includes(name, Kw.ps2) \/ Includes(name, Kw.playstation2)
           THEN "PlayStation 2"
         ELSE IF Includes(name, Kw.wii) \/ Includes(name, Kw.nintendowii)
           THEN "Wii"
         ELSE IF Includes(name, Kw.psp) THEN "PSP"
         ELSE IF SizeMBGreater(size, 4500) THEN "PlayStation 2"
         ELSE IF SizeMBGreater(size, 800) THEN "Wii"
         ELSE IF SizeMBAtLeast(size, 200) THEN "GameCube"
         ELSE "PSP"
  ELSE IF ext = Ext.ebin
    THEN IF Includes(name, Kw.ps2) \/ Includes(name, Kw.playstation2)
           THEN "PlayStation 2"
         ELSE IF \/ Includes(name, Kw.ps1)
                 \/ Includes(name, Kw.psx)
                 \/ Includes(name, Kw.playstation)
           THEN "PlayStation"
         ELSE IF Includes(name, Kw.dreamcast) \/ Includes(name, Kw.dc)
           THEN "Dreamcast"
         ELSE IF SizeMBGreater(size, 900) THEN "PlayStation 2"
         ELSE "PlayStation"
  ELSE IF ext = Ext.ecue THEN "unknown"
  ELSE IF Includes(name, Kw.nintendods) THEN "Nintendo DS"
  ELSE IF Includes(name, Kw.nintendo3ds) THEN "Nintendo 3DS"
  ELSE IF Includes(name, Kw.gameboyadvance) THEN "Game Boy Advance"
  ELSE IF Includes(name, Kw.gameboycolor) THEN "Game Boy Color"
  ELSE IF Includes(name, Kw.gameboy) THEN "Game Boy"
  ELSE IF Includes(name, Kw.nintendo64) THEN "Nintendo 64"
  ELSE IF Includes(name, Kw.supernintendo) THEN "Super Nintendo"
  ELSE IF Includes(name, Kw.nintendoentertainment)
    THEN "Nintendo Entertainment System"
  ELSE IF Includes(name, Kw.playstation2) THEN "PlayStation 2"
  ELSE IF Includes(name, Kw.playstation) THEN "PlayStation"
  ELSE IF Includes(name, Kw.gamecube) THEN "GameCube"
  ELSE IF Includes(name, Kw.wii) THEN "Wii"
  ELSE IF Includes(name, Kw.psp) THEN "PSP"
  ELSE IF Includes(name, Kw.segagenesis) \/ Includes(name, Kw.megadrive)
    THEN "Sega Genesis"
  ELSE IF Includes(name, Kw.dreamcast) THEN "Dreamcast"
  ELSE "unknown"

\* getDATSource
getDATSource(platform) ==
  IF \E k \in 1..Len(PLATFORMS) : PLATFORMS[k].name = platform
    THEN LET row == PLATFORMS[CHOOSE k \in 1..Len(PLATFORMS) :
                                PLATFORMS[k].name = platform]
         IN  IF row.family = "no-intro" THEN <<"No-Intro">>
             ELSE IF row.family = "redump" THEN <<"Redump">>
             ELSE <<>>
    ELSE <<>>

(***************************************************************************)
(* validateROM (romValidator.ts)                                           *)
(***************************************************************************)
\* HashMatch without the test for the sentinel on the file side
HashMatch_NoSentinel(entry, hashes) ==
  \/ /\ entry.md5 # <<>>
     /\ ToLowerCase(entry.md5) = ToLowerCase(hashes.md5)
  \/ /\ entry.sha1 # <<>>
     /\ ToLowerCase(entry.sha1) = ToLowerCase(hashes.sha1)
  \/ /\ entry.crc32 # <<>>
     /\ ToLowerCase(entry.crc32) = ToLowerCase(hashes.crc32)

\* the predicate of datEntries.find: a digest field takes part when the
\* entry's value is truthy (non-empty) and the file's value is not the
\* sentinel; the comparison is on the lowercased strings
HashMatch(entry, hashes) ==
  \/ /\ entry.md5 # <<>>
     /\ hashes.md5 # Unavailable
     /\ ToLowerCase(entry.md5) = ToLowerCase(hashes.md5)
  \/ /\ entry.sha1 # <<>>
     /\ hashes.sha1 # Unavailable
     /\ ToLowerCase(entry.sha1) = ToLowerCase(hashes.sha1)
  \/ /\ entry.crc32 # <<>>
     /\ hashes.crc32 # Unavailable
     /\ ToLowerCase(entry.crc32) = ToLowerCase(hashes.crc32)

\* FindExactMatch returning the last matching element instead of the first
FindExactMatch_Last(datEntries, hashes) ==
  IF \E k \in 1..Len(datEntries) : HashMatch(datEntries[k], hashes)
    THEN CHOOSE k \in 1..Len(datEntries) :
           /\ HashMatch(datEntries[k], hashes)
           /\ \A j \in (k + 1)..Len(datEntries) :
                ~HashMatch(datEntries[j], hashes)
    ELSE 0

\* Array.prototype.find as the index of the element found, 0 when none
FindExactMatch(datEntries, hashes) ==
  IF \E k \in 1..Len(datEntries) : HashMatch(datEntries[k], hashes)
    THEN CHOOSE k \in 1..Len(datEntries) :
           /\ HashMatch(datEntries[k], hashes)
           /\ \A j \in 1..(k - 1) : ~HashMatch(datEntries[j], hashes)
    ELSE 0

\* normalizeFilename, the replacements in the order of the source
normalizeFilename(name) ==
  StripExtension(RemoveSpecialChars(CollapseSpaces(Trim(ToLowerCase(name)))))

\* IsRenamed comparing the names as written
IsRenamed_Raw(fileName, entryName) == fileName # entryName

\* isRenamed
IsRenamed(fileName, entryName) ==
  normalizeFilename(fileName) # normalizeFilename(entryName)

\* the suggestedName computed for a renamed match with a truthy entry name
SuggestedName(fileName, entryName) ==
  LET originalExt == Substring(fileName, LastIndexOfDot(fileName))
  IN  IF EndsWith(ToLowerCase(entryName), ToLowerCase(originalExt))
        THEN entryName
        ELSE StripExtension(entryName) \o originalExt

\* the bare object { status: "unknown" } cast to ValidationResult
BareUnknown ==
  [filename |-> <<>>, originalName |-> <<>>, status |-> "unknown",
   platform |-> <<>>, size |-> <<>>, hashes |-> <<>>,
   matchedIndex |-> 0, matchedEntry |-> <<>>, suggestedName |-> <<>>,
   issues |-> <<>>, datSource |-> <<>>, file |-> <<>>]

\* validateROM; matchedIndex records which element of datEntries the
\* matchedEntry reference points to
validateROM(file, hashes, datEntries, datSource) ==
  LET m == FindExactMatch(datEntries, hashes)
      exactMatch == datEntries[m]
      isRenamed == IsRenamed(file.name, exactMatch.name)
      sizeMatches == SelectSeq(datEntries, LAMBDA e : e.size = file.size)
      platform == detectPlatformFromName(file.name, file.size)
  IN
  IF m # 0
    THEN [filename |-> <<file.name>>, originalName |-> <<file.name>>,
          status |-> IF isRenamed THEN "renamed" ELSE "valid",
          platform |-> exactMatch.platform,
          size |-> <<file.size>>, hashes |-> <<hashes>>,
          matchedIndex |-> m, matchedEntry |-> <<exactMatch>>,
          suggestedName |->
            IF isRenamed /\ exactMatch.name # <<>>
              THEN <<SuggestedName(file.name, exactMatch.name)>>
              ELSE <<>>,
          issues |-> <<>>, datSource |-> datSource, file |-> <<file>>]
    ELSE [filename |-> <<file.name>>, originalName |-> <<file.name>>,
          status |-> "unknown",
          platform |-> IF platform # "unknown" THEN <<platform>> ELSE <<>>,
          size |-> <<file.size>>, hashes |-> <<hashes>>,
          matchedIndex |-> 0, matchedEntry |-> <<>>, suggestedName |-> <<>>,
          issues |->
            IF Len(sizeMatches) > 0
              THEN <<"File size matches known ROMs but hashes differ",
                     "May be a ROM hack, translation, or different version">>
              ELSE <<"No matching entries found in DAT files",
                     "File may be a ROM hack, homebrew, or unknown dump">>,
          datSource |-> <<>>, file |-> <<file>>]

(***************************************************************************)
(* Catalog loader and two-tier cache (datLoader.ts)                        *)
(*                                                                         *)
(* Time is counted in hours.  A cache key is the pair <<source, platform>> *)
(* standing for `dat-cache-${source}-${platform}` in the durable tier and  *)
(* for `${platform}-bundled` / `libretro-${platform}` in the memory tier.  *)
(* The value stored under `entries` is a JSON value: an array of entries,  *)
(* or some other truthy value when the stored string was not written by    *)
(* saveToPersistentCache.                                                  *)
(***************************************************************************)
CACHE_EXPIRY_HOURS == 24
CACHE_VERSION == "1.0"

Arr(es) == [isArray |-> TRUE, items |-> es]
NotAnArray == [isArray |-> FALSE, items |-> <<>>]

\* Map.set / setItem and Map.delete / removeItem on a finite map
Put(f, k, v) == [x \in (DOMAIN f) \cup {k} |-> IF x = k THEN v ELSE f[x]]
Del(f, k) == [x \in (DOMAIN f) \ {k} |-> f[x]]

\* value.length > 0 (undefined > 0 is false for a value without length)
NonEmpty(value) == value.isArray /\ Len(value.items) > 0

\* parseDAT(datContent, platform): the document is kept as the records it
\* holds; every entry is tagged with the known platform
parseDAT_Untagged(doc, knownPlatform) == doc

parseDAT(doc, knownPlatform) ==
  [k \in 1..Len(doc) |-> [doc[k] EXCEPT !.platform = <<knownPlatform>>]]

\* loadFromPersistentCache: the optional value returned and the store left
loadFromPersistentCache(platform, source, store, t) ==
  LET cacheKey == <<source, platform>>
  IN  IF cacheKey \notin DOMAIN store
        THEN [entries |-> <<>>, store |-> store]
        ELSE LET data == store[cacheKey]
                 hoursSinceCache == t - data.timestamp
             IN  IF \/ data.version # CACHE_VERSION
                    \/ hoursSinceCache > CACHE_EXPIRY_HOURS
                   THEN [entries |-> <<>>, store |-> Del(store, cacheKey)]
                   ELSE [entries |-> <<data.entries>>, store |-> store]

\* a key of localStorage that is not a cache key: other data of the origin,
\* which fills the quota when it is there
OtherDataKey == <<"other", "data">>

\* localStorage.setItem throws (quota exceeded)
StorageFull(store) == OtherDataKey \in DOMAIN store

\* saveToPersistentCache; a setItem that throws is caught and logged, and
\* the store stays as it was
saveToPersistentCache(platform, source, entries, store, t) ==
  IF StorageFull(store)
    THEN store
    ELSE Put(store, <<source, platform>>,
             [entries |-> Arr(entries), timestamp |-> t,
              version |-> CACHE_VERSION])

\* what a load returns: the value, both tiers as it leaves them, the keys
\* it fetched, and where the value came from (tier, and the time and version
\* of the record it was taken from)
Loaded(value, mem, store, fetched, from, storedAt, version) ==
  [value |-> value, mem |-> mem, store |-> store, fetched |-> fetched,
   from |-> from, storedAt |-> storedAt, version |-> version]

\* LoadFrom where a failed fetch is not caught and no entry collection is
\* returned
LoadFrom_NoCatch(source, platform, known, checkOk, mem, store, t, net) ==
  LET memoryKey == <<source, platform>>
      cached == loadFromPersistentCache(platform, source, store, t)
  IN
  IF memoryKey \in DOMAIN mem
    THEN Loaded(mem[memoryKey].value, mem, store, <<>>, "memory",
                mem[memoryKey].storedAt, mem[memoryKey].version)
  ELSE IF cached.entries # <<>>
    THEN Loaded(cached.entries[1],
                Put(mem, memoryKey,
                    [value |-> cached.entries[1],
                     storedAt |-> store[memoryKey].timestamp,
                     version |-> store[memoryKey].version]),
                cached.store, <<>>, "durable",
                store[memoryKey].timestamp, store[memoryKey].version)
  ELSE IF ~known
    THEN Loaded(Arr(<<>>), mem, cached.store, <<>>, "none", t, CACHE_VERSION)
  ELSE IF net[memoryKey].kind = "throw"
          \/ (checkOk /\ net[memoryKey].kind = "notok")
    THEN Loaded(NotAnArray, mem, cached.store, <<memoryKey>>, "none",
                t, CACHE_VERSION)
  ELSE LET entries == parseDAT(net[memoryKey].doc, platform)
       IN  Loaded(Arr(entries),
                  Put(mem, memoryKey,
                      [value |-> Arr(entries), storedAt |-> t,
                       version |-> CACHE_VERSION]),
                  saveToPersistentCache(platform, source, entries,
                                        cached.store, t),
                  <<memoryKey>>, "fetch", t, CACHE_VERSION)

\* the steps shared by loadBundledDAT and loadLibretroDAT: memory tier,
\* durable tier with promotion, location lookup, fetch, parse, store in both
\* tiers; checkOk tells whether a non-success response is turned into a throw
LoadFrom(source, platform, known, checkOk, mem, store, t, net) ==
  LET memoryKey == <<source, platform>>
      cached == loadFromPersistentCache(platform, source, store, t)
  IN
  IF memoryKey \in DOMAIN mem
    THEN Loaded(mem[memoryKey].value, mem, store, <<>>, "memory",
                mem[memoryKey].storedAt, mem[memoryKey].version)
  ELSE IF cached.entries # <<>>
    THEN Loaded(cached.entries[1],
                Put(mem, memoryKey,
                    [value |-> cached.entries[1],
                     storedAt |-> store[memoryKey].timestamp,
                     version |-> store[memoryKey].version]),
                cached.store, <<>>, "durable",
                store[memoryKey].timestamp, store[memoryKey].version)
  ELSE IF ~known
    THEN Loaded(Arr(<<>>), mem, cached.store, <<>>, "none", t, CACHE_VERSION)
  ELSE IF net[memoryKey].kind = "throw"
          \/ (checkOk /\ net[memoryKey].kind = "notok")
    THEN Loaded(Arr(<<>>), mem, cached.store, <<memoryKey>>, "none",
                t, CACHE_VERSION)
  ELSE LET entries == parseDAT(net[memoryKey].doc, platform)
       IN  Loaded(Arr(entries),
                  Put(mem, memoryKey,
                      [value |-> Arr(entries), storedAt |-> t,
                       version |-> CACHE_VERSION]),
                  saveToPersistentCache(platform, source, entries,
                                        cached.store, t),
                  <<memoryKey>>, "fetch", t, CACHE_VERSION)

\* loadBundledDAT: response.ok is not looked at
loadBundledDAT(platform, mem, store, t, net) ==
  LoadFrom("bundled", platform,
           \E k \in 1..Len(BUNDLED_DATS) : BUNDLED_DATS[k] = platform,
           FALSE, mem, store, t, net)

\* loadLibretroDAT without the look into the memory tier
loadLibretroDAT_SkipMemory(platform, mem, store, t, net) ==
  LET l == LoadFrom("libretro", platform,
                    \E k \in 1..Len(PLATFORMS) : PLATFORMS[k].name = platform,
                    TRUE, <<>>, store, t, net)
  IN  [l EXCEPT !.mem = [key \in DOMAIN mem \cup DOMAIN l.mem |->
                           IF key \in DOMAIN l.mem THEN l.mem[key]
                           ELSE mem[key]]]

\* loadLibretroDAT: a response that is not ok is thrown and caught
loadLibretroDAT(platform, mem, store, t, net) ==
  LoadFrom("libretro", platform,
           \E k \in 1..Len(PLATFORMS) : PLATFORMS[k].name = platform,
           TRUE, mem, store, t, net)

\* loadPlatformDAT asking the remote variant first
loadPlatformDAT_RemoteFirst(platform, mem, store, t, net) ==
  LET libretro == loadLibretroDAT(platform, mem, store, t, net)
      encrypted ==
        loadBundledDAT("Nintendo DS Encrypted (Bundled)", libretro.mem,
                       libretro.store, t, net)
  IN  IF platform = "Nintendo DS"
        THEN IF NonEmpty(libretro.value)
               THEN libretro
               ELSE [encrypted EXCEPT
                       !.fetched = libretro.fetched \o encrypted.fetched]
        ELSE libretro

\* loadPlatformDAT
loadPlatformDAT(platform, mem, store, t, net) ==
  LET encrypted ==
        loadBundledDAT("Nintendo DS Encrypted (Bundled)", mem, store, t, net)
      libretro ==
        loadLibretroDAT(platform, encrypted.mem, encrypted.store, t, net)
  IN  IF platform = "Nintendo DS"
        THEN IF NonEmpty(encrypted.value)
               THEN encrypted
               ELSE [libretro EXCEPT
                       !.fetched = encrypted.fetched \o libretro.fetched]
        ELSE loadLibretroDAT(platform, mem, store, t, net)

\* the bundled and the Libretro sources in the order loadAllBundledDATs
\* visits them
AllSources ==
  [k \in 1..Len(BUNDLED_DATS) |->
     [source |-> "bundled", platform |-> BUNDLED_DATS[k]]]
  \o [k \in 1..Len(PLATFORMS) |->
        [source |-> "libretro", platform |-> PLATFORMS[k].name]]

\* the loop bodies of loadAllBundledDATs: load one source after the other
\* and spread its entries into allEntries; spreading a value that is not an
\* array throws and ends the loop
RECURSIVE LoadEach(_, _, _, _, _, _)
LoadEach(sources, acc, mem, store, t, net) ==
  IF sources = <<>> \/ acc.threw
    THEN [value |-> Arr(acc.all), threw |-> acc.threw, mem |-> mem,
          store |-> store, fetched |-> acc.fetched]
    ELSE LET l == IF Head(sources).source = "bundled"
                    THEN loadBundledDAT(Head(sources).platform,
                                        mem, store, t, net)
                    ELSE loadLibretroDAT(Head(sources).platform,
                                         mem, store, t, net)
         IN  LoadEach(Tail(sources),
                      [all |-> IF l.value.isArray
                                 THEN acc.all \o l.value.items ELSE acc.all,
                       threw |-> ~l.value.isArray,
                       fetched |-> acc.fetched \o l.fetched],
                      l.mem, l.store, t, net)

\* loadAllBundledDATs (called through loadDATFiles)
loadAllBundledDATs(mem, store, t, net) ==
  LoadEach(AllSources, [all |-> <<>>, threw |-> FALSE, fetched |-> <<>>],
           mem, store, t, net)

(***************************************************************************)
(* State                                                                   *)
(***************************************************************************)
VARIABLES
  mFile,            \* validateROM call under study: the file (name, size)
  mHashes,          \* its digest set
  mEntries,         \* the entry collection passed as datEntries
  mResult,          \* optional: the ValidationResult returned
  datCache,         \* memory tier: key -> value (with the time and version
                    \* of the record the value was taken from)
  localStorage,     \* durable tier: key -> {entries, timestamp, version}
  now,              \* Date.now(), in hours
  host,             \* the host: what fetch answers per source, and which
                    \* digest algorithms crypto.subtle supports
  lastLoad,         \* optional: the last load call and what it returned
  files,            \* validateROMs: the files argument
  forcePlatform,    \* optional: the forcePlatform argument
  pc,               \* where the validateROMs call stands
  validFiles,       \* files without the filtered ones
  i,                \* loop index into validFiles (from 1)
  hashes,           \* optional: digests of validFiles[i]
  orderedPlatforms, \* candidates of validFiles[i], reordered
  phase,            \* which loop of the candidate chain is running
  todo,             \* platforms the running loop still has to try
  results,          \* the results array
  trace,            \* loads made for validFiles[i]: platform asked,
                    \* status validateROM gave, keys fetched
  hashed,           \* files passed to calculateFileHashes so far
  history,          \* per finished file: the file, its loads, its result
  onProgress,       \* optional: the onProgress argument of validateROMs
  fileStatus,       \* Header: status of each file of the list
  isValidating,     \* Header: isValidating
  showProgress,     \* Header: showProgress
  validationStats,  \* Header: optional validationStats
  validationResults,\* optional: window.validationResults
  cancelled,        \* optional: what had been hashed and pushed when the
                    \* user pressed Cancel
  baseline,         \* optional: the two tiers as they were when a file
                    \* was first validated, for a second validation of it
  parse             \* optional: the arguments and locals of a running
                    \* parseClrMameProDAT

harnessVars == <<mFile, mHashes, mEntries, mResult, baseline, parse>>
loaderVars == <<datCache, localStorage, now, host, lastLoad>>
batchVars == <<files, forcePlatform, pc, validFiles, i, hashes,
               orderedPlatforms, phase, todo, results, trace, hashed,
               history>>
uiFixed == <<onProgress, isValidating, showProgress, validationResults,
             cancelled>>
uiVars == <<fileStatus, validationStats, uiFixed>>
vars == <<harnessVars, loaderVars, batchVars, uiVars>>

\* the parts of the state a specification does not exercise
IdleHarness ==
  /\ mFile = [name |-> <<"a">>, size |-> [mb |-> 0, rem |-> 0]]
  /\ mHashes = [md5 |-> <<"0">>, sha1 |-> <<"0">>, crc32 |-> <<"0">>]
  /\ mEntries = <<>>
  /\ mResult = <<>>
  /\ baseline = <<>>
  /\ parse = <<>>

IdleUI ==
  /\ onProgress = <<>>
  /\ fileStatus = <<>>
  /\ isValidating = FALSE
  /\ showProgress = FALSE
  /\ validationStats = <<>>
  /\ validationResults = <<>>
  /\ cancelled = <<>>

IdleLoader ==
  /\ datCache = <<>>
  /\ localStorage = <<>>
  /\ now = 0
  /\ host = [net |-> <<>>, sha1 |-> TRUE, md5 |-> FALSE]
  /\ lastLoad = <<>>

IdleBatch ==
  /\ files = <<>>
  /\ forcePlatform = <<>>
  /\ pc = "idle"
  /\ validFiles = <<>>
  /\ i = 1
  /\ hashes = <<>>
  /\ orderedPlatforms = <<>>
  /\ phase = "none"
  /\ todo = <<>>
  /\ results = <<>>
  /\ trace = <<>>
  /\ hashed = <<>>
  /\ history = <<>>

(***************************************************************************)
(* Inputs of validateROM                                                   *)
(***************************************************************************)
SeqsUpTo(S, n) == UNION {[1..k -> S] : k \in 0..n}

FileNameChars == {"a", "b", "."}
EntryNameChars == {"a", "A", ".", " ", "#"}

\* a file digest is a hex string or the sentinel (FileDigestSet)
HexLower == <<"a","b">>
HexUpper == <<"A","B">>
HexOther == <<"c","d">>

SmallSize == [mb |-> 1, rem |-> 0]

NameFiles ==
  [name : SeqsUpTo(FileNameChars, MaxFileNameLen) \ {<<>>}, size : {SmallSize}]
NameHashes == [md5 |-> HexOther, sha1 |-> Unavailable, crc32 |-> HexLower]
NameEntries ==
  [name : SeqsUpTo(EntryNameChars, MaxEntryNameLen), size : {SmallSize},
   md5 : {<<>>}, sha1 : {<<>>}, crc32 : {HexUpper}, platform : {<<"PSP">>}]

DigestFiles == [name : {<<"a",".","a">>}, size : {SmallSize}]
DigestHashes ==
  [md5 : {HexLower, Unavailable}, sha1 : {HexLower, Unavailable},
   crc32 : {HexLower, HexOther, Unavailable}]
DigestEntries ==
  [name : {<<"A",".","a">>}, size : {SmallSize},
   md5 : {<<>>, HexUpper, Unavailable}, sha1 : {<<>>, HexUpper, Unavailable},
   crc32 : {<<>>, HexUpper, Unavailable}, platform : {<<"PSP">>}]

(***************************************************************************)
(* validateROM as a function of its arguments: names                       *)
(***************************************************************************)
InitName ==
  /\ mFile \in NameFiles
  /\ mHashes = NameHashes
  /\ mEntries = <<>>
  /\ mResult = <<>>
  /\ baseline = <<>>
  /\ parse = <<>>
  /\ IdleLoader
  /\ IdleBatch
  /\ IdleUI

NameAddEntry ==
  /\ mResult = <<>>
  /\ Len(mEntries) < 1
  /\ \E e \in NameEntries : mEntries' = Append(mEntries, e)
  /\ UNCHANGED <<mFile, mHashes, mResult, baseline, parse, loaderVars,
                 batchVars, uiVars>>

Validate ==
  /\ mResult = <<>>
  /\ mResult' = <<validateROM(mFile, mHashes, mEntries, <<"No-Intro">>)>>
  /\ UNCHANGED <<mFile, mHashes, mEntries, baseline, parse, loaderVars,
                 batchVars, uiVars>>

NextName == NameAddEntry \/ Validate

SpecName == InitName /\ [][NextName]_vars

(***************************************************************************)
(* validateROM as a function of its arguments: digests                     *)
(***************************************************************************)
InitDigest ==
  /\ mFile \in DigestFiles
  /\ mHashes \in DigestHashes
  /\ mEntries = <<>>
  /\ mResult = <<>>
  /\ baseline = <<>>
  /\ parse = <<>>
  /\ IdleLoader
  /\ IdleBatch
  /\ IdleUI

DigestAddEntry ==
  /\ mResult = <<>>
  /\ Len(mEntries) < MaxEntries
  /\ \E e \in DigestEntries : mEntries' = Append(mEntries, e)
  /\ UNCHANGED <<mFile, mHashes, mResult, baseline, parse, loaderVars,
                 batchVars, uiVars>>

NextDigest == DigestAddEntry \/ Validate

SpecDigest == InitDigest /\ [][NextDigest]_vars

(***************************************************************************)
(* Properties of validateROM                                               *)
(***************************************************************************)
DigestFields == {"md5", "sha1", "crc32"}

Matched(r) == r.status \in {"valid", "renamed"}

\* an entry digest equals the file's digest in field f, ignoring case, and
\* the file's digest is not the sentinel
DigestEqual(entry, digests, f) ==
  /\ digests[f] # Unavailable
  /\ ToLowerCase(entry[f]) = ToLowerCase(digests[f])

EntryEqualsFile(entry, digests) ==
  \E f \in DigestFields : DigestEqual(entry, digests, f)

\* C1: validateROM reports valid or renamed exactly when some entry has a
\* digest equal (ignoring case) to the file's non-sentinel digest of the same
\* kind, and the matched entry is the first such entry of the collection.
C1_MatchIffFirstEqualDigest ==
  mResult # <<>> =>
    LET r == mResult[1]
        hits == {k \in 1..Len(mEntries) : EntryEqualsFile(mEntries[k], mHashes)}
    IN  /\ Matched(r) <=> hits # {}
        /\ Matched(r) =>
             /\ r.matchedIndex \in hits
             /\ \A k \in hits : r.matchedIndex <= k
             /\ r.matchedEntry = <<mEntries[r.matchedIndex]>>
        /\ ~Matched(r) => r.matchedIndex = 0 /\ r.matchedEntry = <<>>

\* two entries share the file's digest and the first one is reported
C1_Witness ==
  /\ mResult # <<>>
  /\ Len(mEntries) = 2
  /\ EntryEqualsFile(mEntries[1], mHashes)
  /\ EntryEqualsFile(mEntries[2], mHashes)
  /\ mEntries[1] # mEntries[2]
  /\ mResult[1].matchedIndex = 1

\* C2: a matched outcome is valid exactly when the normalized file name
\* equals the normalized entry name, and renamed otherwise.
C2_ValidIffNormalizedNamesEqual ==
  (mResult # <<>> /\ mResult[1].matchedIndex # 0) =>
    LET r == mResult[1]
        same == normalizeFilename(mFile.name)
                  = normalizeFilename(mEntries[r.matchedIndex].name)
    IN  /\ r.status \in {"valid", "renamed"}
        /\ r.status = "valid" <=> same
        /\ r.status = "renamed" <=> ~same

\* a valid outcome whose file name and entry name differ as written
C2_Witness ==
  /\ mResult # <<>>
  /\ mResult[1].status = "valid"
  /\ mFile.name # mEntries[1].name
  /\ mHashes = NameHashes

\* a name ends with a file extension: a last "." followed by at least one
\* character, none of them whitespace or "/"
HasFileExtension(name) ==
  LET p == LastIndexOfDot(name)
  IN  /\ p >= 0
      /\ p + 1 < Len(name)
      /\ \A j \in (p + 2)..Len(name) : ~IsSpaceChar(name[j]) /\ name[j] # "/"

\* the entry name carrying the file's extension
NameWithFileExtension(fileName, entryName) ==
  LET ext == SubSeq(fileName, LastIndexOfDot(fileName) + 1, Len(fileName))
  IN  IF EndsWith(ToLowerCase(entryName), ToLowerCase(ext))
        THEN entryName
        ELSE IF HasFileExtension(entryName)
          THEN SubSeq(entryName, 1, LastIndexOfDot(entryName)) \o ext
          ELSE entryName \o ext

\* a name as files and catalog titles are written: it starts with a letter
\* or digit and has no leading or trailing whitespace
PlainName(name) ==
  name # <<>> /\ IsWordChar(name[1]) /\ Trim(name) = name

\* C3: a renamed outcome suggests the entry name carrying the file's
\* extension (the entry name as it is when it already ends with that
\* extension, otherwise the entry name without its own file extension, if it
\* has one, followed by the file's extension); no other outcome has a
\* suggested name.  Stated for plain file names that have an extension and
\* plain entry names.
C3_SuggestedNameKeepsEntryName ==
  (mResult # <<>> /\ PlainName(mFile.name) /\ HasFileExtension(mFile.name)) =>
    LET r == mResult[1]
    IN  /\ (r.status = "renamed" /\ PlainName(mEntries[r.matchedIndex].name)) =>
             r.suggestedName =
               <<NameWithFileExtension(mFile.name,
                                       mEntries[r.matchedIndex].name)>>
        /\ r.status # "renamed" => r.suggestedName = <<>>

\* C4: a file digest equal to the sentinel never produces a match: when
\* every digest kind is either the sentinel on the file side or equal to no
\* entry's digest, the outcome is unknown.
C4_SentinelNeverMatches ==
  (/\ mResult # <<>>
   /\ \A f \in DigestFields :
        \/ mHashes[f] = Unavailable
        \/ \A k \in 1..Len(mEntries) :
             ToLowerCase(mEntries[k][f]) # ToLowerCase(mHashes[f]))
  => mResult[1].status = "unknown"

\* the file's sha1 is the sentinel, an entry stores the same literal string,
\* and the outcome is unknown
C4_Witness ==
  /\ mResult # <<>>
  /\ mHashes.sha1 = Unavailable
  /\ \E k \in 1..Len(mEntries) : mEntries[k].sha1 = Unavailable
  /\ mResult[1].status = "unknown"

(***************************************************************************)
(* The host: file contents and their digests, catalog documents, fetch     *)
(***************************************************************************)
MaxClock == 36

\* the digests of the byte contents used as inputs; placeholder is the
\* value simpleMD5 gives for the content
Digests ==
  [c1 |-> [md5 |-> <<"1","a">>, sha1 |-> <<"1","b">>, crc32 |-> <<"1","C">>,
           placeholder |-> <<"1","0">>],
   c2 |-> [md5 |-> <<"2","a">>, sha1 |-> <<"2","b">>, crc32 |-> <<"2","C">>,
           placeholder |-> <<"2","0">>],
   c3 |-> [md5 |-> <<"3","a">>, sha1 |-> <<"3","b">>, crc32 |-> <<"3","C">>,
           placeholder |-> <<"3","0">>],
   c4 |-> [md5 |-> <<"4","a">>, sha1 |-> <<"4","b">>, crc32 |-> <<"4","C">>,
           placeholder |-> <<"4","0">>]]

\* calculateFileHashes: SHA-1 through crypto.subtle or the sentinel, MD5
\* through crypto.subtle or simpleMD5, CRC32 always
calculateFileHashes(file, h) ==
  [md5 |-> IF h.md5 THEN Digests[file.content].md5
                    ELSE Digests[file.content].placeholder,
   sha1 |-> IF h.sha1 THEN Digests[file.content].sha1 ELSE Unavailable,
   crc32 |-> Digests[file.content].crc32]

\* a catalog record for a content, as the parser reads it from a document
\* (crc in upper case, md5 and sha1 in lower case, platform not yet tagged)
DocEntry(name, content, size) ==
  [name |-> name, size |-> size,
   md5 |-> Digests[content].md5, sha1 |-> Digests[content].sha1,
   crc32 |-> Digests[content].crc32, platform |-> <<>>]

SourceKeys == {<<AllSources[k].source, AllSources[k].platform>> :
                 k \in 1..Len(AllSources)}

Size64MB == [mb |-> 64, rem |-> 0]
Size300MB == [mb |-> 300, rem |-> 0]

Ok(doc) == [kind |-> "ok", doc |-> doc]
NotOk == [kind |-> "notok", doc |-> <<>>]
Throw == [kind |-> "throw", doc |-> <<>>]

\* what fetch answers: every source reachable; the bundled catalog is empty
NetStandard ==
  [key \in SourceKeys |->
     CASE key = <<"libretro", "Nintendo DS">> ->
            Ok(<<DocEntry(<<"x">>, "c3", Size64MB)>>)
       [] key = <<"libretro", "Nintendo DS Download Play">> ->
            Ok(<<DocEntry(<<"a">>, "c1", Size64MB)>>)
       [] key = <<"libretro", "Nintendo DSi">> ->
            Ok(<<DocEntry(<<"b">>, "c1", Size64MB)>>)
       [] key = <<"libretro", "PlayStation 2">> ->
            Ok(<<DocEntry(<<"a">>, "c2", Size300MB)>>)
       [] key = <<"libretro", "PSP">> ->
            Ok(<<DocEntry(<<"B", ".", " ", "2">>, "c2", Size300MB),
                 DocEntry(<<"a">>, "c1", Size64MB)>>)
       [] key = <<"libretro", "Game Boy Advance">> ->
            Ok(<<DocEntry(<<"a">>, "c1", Size64MB)>>)
       [] OTHER -> Ok(<<>>)]

\* every source reachable; the bundled catalog has an entry, the Nintendo DS
\* catalog holds the file contents, the other catalogs are empty or missing
NetBundled ==
  [key \in SourceKeys |->
     CASE key = <<"bundled", "Nintendo DS Encrypted (Bundled)">> ->
            Ok(<<DocEntry(<<"e">>, "c3", Size64MB)>>)
       [] key = <<"libretro", "Nintendo DS">> ->
            Ok(<<DocEntry(<<"a">>, "c1", Size64MB)>>)
       [] key = <<"libretro", "GameCube">> ->
            Ok(<<DocEntry(<<"A">>, "c2", Size300MB)>>)
       [] key = <<"libretro", "Wii">> -> NotOk
       [] OTHER -> Ok(<<>>)]

\* no source reachable
NetDown == [key \in SourceKeys |-> Throw]

Hosts ==
  {[net |-> NetStandard, sha1 |-> TRUE,  md5 |-> FALSE],
   [net |-> NetBundled,  sha1 |-> TRUE,  md5 |-> TRUE],
   [net |-> NetDown,     sha1 |-> FALSE, md5 |-> FALSE]}

\* a durable record as an earlier session or another tab left it
Record(value, timestamp, version) ==
  [entries |-> value, timestamp |-> timestamp, version |-> version]

CachedPSP ==
  Arr(parseDAT(<<DocEntry(<<"a">>, "c1", Size64MB)>>, "PSP"))

\* contents of the durable tier when the session starts
InitialStores ==
  {<<>>,
   [key \in {<<"libretro", "PSP">>} |-> Record(CachedPSP, -12, CACHE_VERSION)],
   [key \in {<<"libretro", "PSP">>} |-> Record(CachedPSP, -36, CACHE_VERSION)],
   [key \in {<<"libretro", "PSP">>} |-> Record(CachedPSP, 0, "0.9")],
   [key \in {<<"libretro", "PSP">>} |-> Record(NotAnArray, 0, CACHE_VERSION)]}

(***************************************************************************)
(* The loader called on its own                                            *)
(***************************************************************************)
LoaderPlatforms == {"Nintendo DS", "PSP"}

InitLoader ==
  /\ IdleHarness
  /\ IdleUI
  /\ IdleBatch
  /\ datCache = <<>>
  /\ localStorage \in InitialStores
  /\ now = 0
  /\ host \in Hosts
  /\ lastLoad = <<>>

\* the record of a load call: the operation, the platform, and what it
\* returned at which time
LoadRecord(op, platform, l) ==
  <<[op |-> op, platform |-> platform, value |-> l.value, from |-> l.from,
     storedAt |-> l.storedAt, version |-> l.version, fetched |-> l.fetched,
     at |-> now]>>

CallLoadPlatformDAT ==
  \E p \in LoaderPlatforms :
    LET l == loadPlatformDAT(p, datCache, localStorage, now, host.net)
    IN  /\ datCache' = l.mem
        /\ localStorage' = l.store
        /\ lastLoad' = LoadRecord("loadPlatformDAT", p, l)
        /\ UNCHANGED <<now, host, harnessVars, batchVars,
                     uiVars>>

CallLoadLibretroDAT ==
  \E p \in LoaderPlatforms :
    LET l == loadLibretroDAT(p, datCache, localStorage, now, host.net)
    IN  /\ datCache' = l.mem
        /\ localStorage' = l.store
        /\ lastLoad' = LoadRecord("loadLibretroDAT", p, l)
        /\ UNCHANGED <<now, host, harnessVars, batchVars,
                     uiVars>>

CallLoadBundledDAT ==
  \E k \in 1..Len(BUNDLED_DATS) :
    LET l == loadBundledDAT(BUNDLED_DATS[k], datCache, localStorage, now,
                            host.net)
    IN  /\ datCache' = l.mem
        /\ localStorage' = l.store
        /\ lastLoad' = LoadRecord("loadBundledDAT", BUNDLED_DATS[k], l)
        /\ UNCHANGED <<now, host, harnessVars, batchVars,
                     uiVars>>

\* time passes while the page stays open
Tick ==
  /\ now + 12 <= MaxClock
  /\ now' = now + 12
  /\ UNCHANGED <<datCache, localStorage, host, lastLoad, harnessVars,
                 batchVars, uiVars>>

\* the page is loaded again: the module-level Map starts empty, the durable
\* tier stays
Reload ==
  /\ datCache # <<>>
  /\ datCache' = <<>>
  /\ lastLoad' = <<>>
  /\ UNCHANGED <<localStorage, now, host, harnessVars, batchVars,
                     uiVars>>

NextLoader ==
  \/ CallLoadPlatformDAT
  \/ CallLoadLibretroDAT
  \/ CallLoadBundledDAT
  \/ Tick
  \/ Reload

SpecLoader == InitLoader /\ [][NextLoader]_vars

\* C10: no load returns entries taken from a cache record, in the memory
\* tier or the durable tier, whose version is not the current one or that
\* was stored more than 24 hours before the call.
C10_NoStaleRecordServed ==
  (lastLoad # <<>> /\ lastLoad[1].from \in {"memory", "durable"}) =>
    /\ lastLoad[1].version = CACHE_VERSION
    /\ lastLoad[1].at - lastLoad[1].storedAt <= CACHE_EXPIRY_HOURS

(***************************************************************************)
(* validateROMs (romValidator.ts)                                          *)
(***************************************************************************)
MaxFiles == 2

Range(s) == {s[k] : k \in 1..Len(s)}

\* the files.filter callback: true for the files that are kept
IsValidFile(file) == FileExt(file.name) # Ext.ecue

\* orderedPlatforms without the reordering
OrderedPlatforms_NoReorder(platforms, mostLikelyPlatform) == platforms

\* orderedPlatforms: the most likely platform first when it is a candidate
OrderedPlatforms(platforms, mostLikelyPlatform) ==
  IF mostLikelyPlatform \in Range(platforms)
    THEN <<mostLikelyPlatform>>
           \o SelectSeq(platforms, LAMBDA p : p # mostLikelyPlatform)
    ELSE platforms

\* fallbackPlatforms where the forced branch also lists a platform that is
\* not a candidate of the extension
FallbackPlatforms_ForcedExtra(ext, forced) ==
  IF ext = Ext.eiso
    THEN IF forced
           THEN <<"PlayStation 2", "Wii", "PSP", "GameCube", "Dreamcast">>
           ELSE <<"PlayStation 2", "PSP", "GameCube">>
  ELSE IF ext = Ext.ebin
    THEN <<"PlayStation", "Dreamcast", "PlayStation 2">>
  ELSE <<>>

\* fallbackPlatforms, as written in the forced branch and in the automatic
\* branch
FallbackPlatforms(ext, forced) ==
  IF ext = Ext.eiso
    THEN IF forced
           THEN <<"PlayStation 2", "Wii", "PSP", "GameCube">>
           ELSE <<"PlayStation 2", "PSP", "GameCube">>
  ELSE IF ext = Ext.ebin
    THEN <<"PlayStation", "Dreamcast", "PlayStation 2">>
  ELSE <<>>

\* uncheckedPlatforms
UncheckedPlatforms(file, forced, ordered) ==
  SelectSeq(FallbackPlatforms(FileExt(file.name), forced),
            LAMBDA p : p \notin Range(ordered))

\* where the automatic detection starts for a file: the candidate loop for
\* several candidates, the single load for one, all catalogs for none
Dispatch(file) ==
  LET platforms == getPlatformsForFile(file.name)
      ordered == OrderedPlatforms(platforms,
                   detectPlatformFromName(file.name, file.size))
  IN  IF Len(platforms) > 1
        THEN [pc |-> "chain", phase |-> "primary", ordered |-> ordered,
              todo |-> ordered]
      ELSE IF Len(platforms) = 1
        THEN [pc |-> "chain", phase |-> "single", ordered |-> platforms,
              todo |-> platforms]
      ELSE [pc |-> "all", phase |-> "all", ordered |-> <<>>, todo |-> <<>>]

\* ChainStep going on to the next candidate after a match
ChainStep_NoBreak(ph, status, rest, file, forced, ordered) ==
  LET unchecked == UncheckedPlatforms(file, forced, ordered)
      toFinal == [done |-> FALSE, phase |-> "final", todo |-> <<ordered[1]>>]
  IN  IF ph \in {"single", "final"}
        THEN [done |-> TRUE, phase |-> "none", todo |-> <<>>]
      ELSE IF rest # <<>>
        THEN [done |-> FALSE, phase |-> ph, todo |-> rest]
      ELSE IF status # "unknown"
        THEN [done |-> TRUE, phase |-> "none", todo |-> <<>>]
      ELSE IF ph = "primary" /\ unchecked # <<>>
        THEN [done |-> FALSE, phase |-> "fallback", todo |-> unchecked]
      ELSE toFinal

\* control after one load-and-match of the candidate chain: a match ends the
\* candidate loop and the fallback loop (break); an exhausted candidate loop
\* goes on to the unchecked fallback platforms, then to the final load of
\* orderedPlatforms[0]; the single load and the final load end the chain
ChainStep(ph, status, rest, file, forced, ordered) ==
  LET unchecked == UncheckedPlatforms(file, forced, ordered)
      toFinal == [done |-> FALSE, phase |-> "final", todo |-> <<ordered[1]>>]
  IN  IF ph \in {"single", "final"} \/ status # "unknown"
        THEN [done |-> TRUE, phase |-> "none", todo |-> <<>>]
      ELSE IF rest # <<>>
        THEN [done |-> FALSE, phase |-> ph, todo |-> rest]
      ELSE IF ph = "primary" /\ unchecked # <<>>
        THEN [done |-> FALSE, phase |-> "fallback", todo |-> unchecked]
      ELSE toFinal

\* one element of the trace of a file
Step(ph, platform, outcome, status, fetched) ==
  [phase |-> ph, platform |-> platform, outcome |-> outcome,
   status |-> status, fetched |-> fetched]

\* inputs of a batch
BatchFiles ==
  {[name |-> <<"a">> \o Ext.ends, size |-> Size64MB, content |-> "c1"],
   [name |-> <<"a">> \o Ext.ecue, size |-> Size64MB, content |-> "c3"],
   [name |-> <<"A", ".", "C", "U", "E">>, size |-> Size64MB, content |-> "c3"],
   [name |-> <<CapitalIDot>> \o Ext.ecue, size |-> Size64MB, content |-> "c3"],
   [name |-> <<"a">> \o Ext.eiso, size |-> Size300MB, content |-> "c2"],
   [name |-> <<"a">> \o Ext.egba, size |-> Size64MB, content |-> "c1"],
   [name |-> <<"a">>, size |-> Size64MB, content |-> "c1"]}

ForcedChoices == {<<>>, <<"PSP">>, <<"Nintendo DS">>}

BatchStores ==
  {<<>>,
   [key \in {<<"libretro", "PSP">>} |-> Record(CachedPSP, -12, CACHE_VERSION)],
   [key \in {<<"libretro", "PSP">>} |-> Record(NotAnArray, 0, CACHE_VERSION)]}

InitBatch ==
  /\ IdleHarness
  /\ IdleUI
  /\ datCache = <<>>
  /\ localStorage \in BatchStores
  /\ now = 0
  /\ host \in Hosts
  /\ lastLoad = <<>>
  /\ files \in SeqsUpTo(BatchFiles, MaxFiles)
  /\ forcePlatform \in ForcedChoices
  /\ pc = "start"
  /\ validFiles = <<>>
  /\ i = 1
  /\ hashes = <<>>
  /\ orderedPlatforms = <<>>
  /\ phase = "none"
  /\ todo = <<>>
  /\ results = <<>>
  /\ trace = <<>>
  /\ hashed = <<>>
  /\ history = <<>>

\* files.findIndex((f) => f.file.name === currentFileName), from 1; 0 is
\* the -1 of findIndex
FindIndex(name) ==
  IF \E k \in 1..Len(files) : files[k].name = name
    THEN CHOOSE k \in 1..Len(files) :
           /\ files[k].name = name
           /\ \A j \in 1..(k - 1) : files[j].name # name
    ELSE 0

\* onProgress?.(current, total, currentFile, stage): nothing without the
\* callback; with the callback of startValidation, the stats are updated if
\* they are not null, the file named becomes "processing" and the files
\* before it "completed"
Progress(current, currentFileName, stage) ==
  IF onProgress = <<>>
    THEN UNCHANGED <<fileStatus, validationStats>>
    ELSE /\ validationStats' =
              IF validationStats = <<>>
                THEN <<>>
                ELSE <<[processedFiles |-> current - 1,
                        currentStage |-> stage]>>
         /\ fileStatus' =
              [k \in 1..Len(fileStatus) |->
                 IF FindIndex(currentFileName) = 0 THEN fileStatus[k]
                 ELSE IF k = FindIndex(currentFileName) THEN "processing"
                 ELSE IF k < FindIndex(currentFileName) THEN "completed"
                 ELSE fileStatus[k]]

\* validateROMs is called: the filter, then the loop up to its first await
Start ==
  /\ pc = "start"
  /\ validFiles' = SelectSeq(files, IsValidFile)
  /\ pc' = IF validFiles' = <<>> THEN "returned" ELSE "hash"
  /\ UNCHANGED <<files, forcePlatform, i, hashes, orderedPlatforms, phase,
                 todo, results, trace, hashed, history, loaderVars,
                 harnessVars, uiVars>>

\* calculateFileHashes for validFiles[i], getPlatformsForFile, and the
\* choice of the branch
HashFile ==
  /\ pc = "hash"
  /\ LET file == validFiles[i]
         d == Dispatch(file)
     IN  /\ hashed' = Append(hashed, file)
         /\ IF file.content = "unreadable"
              THEN /\ pc' = "rejected"
                   /\ UNCHANGED <<hashes, orderedPlatforms, phase, todo>>
            ELSE IF forcePlatform # <<>>
              THEN /\ hashes' = <<calculateFileHashes(file, host)>>
                   /\ pc' = "forced"
                   /\ UNCHANGED <<orderedPlatforms, phase, todo>>
              ELSE /\ hashes' = <<calculateFileHashes(file, host)>>
                   /\ pc' = d.pc
                   /\ orderedPlatforms' = d.ordered
                   /\ phase' = d.phase
                   /\ todo' = d.todo
         /\ Progress(i, file.name,
                     IF file.content = "unreadable" THEN "hashing"
                                                    ELSE "validating")
  /\ UNCHANGED <<files, forcePlatform, validFiles, i, results, trace, history,
                 loaderVars, harnessVars, uiFixed>>

\* results.push(result) and the next iteration, or the return
Finish(r, tr) ==
  /\ results' = Append(results, r)
  /\ history' = Append(history,
                  [file |-> validFiles[i], hashes |-> hashes[1],
                   forced |-> forcePlatform, ordered |-> orderedPlatforms,
                   trace |-> tr, result |-> r])
  /\ i' = i + 1
  /\ pc' = IF i + 1 > Len(validFiles) THEN "returned" ELSE "hash"
  /\ hashes' = <<>>
  /\ orderedPlatforms' = <<>>
  /\ phase' = "none"
  /\ todo' = <<>>
  /\ trace' = <<>>
  /\ UNCHANGED <<files, forcePlatform, validFiles, hashed>>

\* an exception leaves the try block of the forced branch through its catch,
\* which sets the bare result; outside that block it rejects the call
Raise(tr) ==
  IF forcePlatform # <<>>
    THEN Finish(BareUnknown, tr)
    ELSE /\ pc' = "rejected"
         /\ trace' = tr
         /\ UNCHANGED <<files, forcePlatform, validFiles, i, hashes,
                        orderedPlatforms, phase, todo, results, hashed,
                        history>>

\* the load and match of the forced platform
ForcedLoad ==
  /\ pc = "forced"
  /\ LET file == validFiles[i]
         l == loadPlatformDAT(forcePlatform[1], datCache, localStorage, now,
                              host.net)
         r == validateROM(file, hashes[1], l.value.items,
                          getDATSource(forcePlatform[1]))
         d == Dispatch(file)
     IN  /\ datCache' = l.mem
         /\ localStorage' = l.store
         /\ IF ~l.value.isArray
              THEN Raise(Append(trace,
                     Step("forced", forcePlatform[1], BareUnknown, "threw",
                          l.fetched)))
            ELSE IF r.status # "unknown"
              THEN Finish(r, Append(trace,
                     Step("forced", forcePlatform[1], r, r.status, l.fetched)))
            ELSE /\ pc' = d.pc
                 /\ orderedPlatforms' = d.ordered
                 /\ phase' = d.phase
                 /\ todo' = d.todo
                 /\ trace' = Append(trace,
                      Step("forced", forcePlatform[1], r, r.status, l.fetched))
                 /\ UNCHANGED <<files, forcePlatform, validFiles, i, hashes,
                                results, hashed, history>>
  /\ IF i' = i + 1
       THEN Progress(i, validFiles[i].name, "validating")
       ELSE UNCHANGED <<fileStatus, validationStats>>
  /\ UNCHANGED <<now, host, lastLoad, harnessVars, uiFixed>>

\* one load and match of the candidate chain
ChainLoad ==
  /\ pc = "chain"
  /\ LET file == validFiles[i]
         platform == Head(todo)
         l == loadPlatformDAT(platform, datCache, localStorage, now, host.net)
         r == validateROM(file, hashes[1], l.value.items,
                          getDATSource(platform))
         c == ChainStep(phase, r.status, Tail(todo), file,
                        forcePlatform # <<>>, orderedPlatforms)
     IN  /\ datCache' = l.mem
         /\ localStorage' = l.store
         /\ IF ~l.value.isArray
              THEN Raise(Append(trace,
                     Step(phase, platform, BareUnknown, "threw", l.fetched)))
            ELSE IF c.done
              THEN Finish(r, Append(trace,
                     Step(phase, platform, r, r.status, l.fetched)))
            ELSE /\ phase' = c.phase
                 /\ todo' = c.todo
                 /\ trace' = Append(trace,
                      Step(phase, platform, r, r.status, l.fetched))
                 /\ UNCHANGED <<files, forcePlatform, pc, validFiles, i,
                                hashes, orderedPlatforms, results, hashed,
                                history>>
  /\ IF i' = i + 1
       THEN Progress(i, validFiles[i].name, "validating")
       ELSE UNCHANGED <<fileStatus, validationStats>>
  /\ UNCHANGED <<now, host, lastLoad, harnessVars, uiFixed>>

\* loadDATFiles and the match against all catalogs
LoadAll ==
  /\ pc = "all"
  /\ LET file == validFiles[i]
         l == loadAllBundledDATs(datCache, localStorage, now, host.net)
         r == validateROM(file, hashes[1], l.value.items, <<"Mixed">>)
     IN  /\ datCache' = l.mem
         /\ localStorage' = l.store
         /\ IF l.threw
              THEN Raise(Append(trace,
                     Step("all", "*", BareUnknown, "threw", l.fetched)))
              ELSE Finish(r, Append(trace,
                     Step("all", "*", r, r.status, l.fetched)))
  /\ IF i' = i + 1
       THEN Progress(i, validFiles[i].name, "validating")
       ELSE UNCHANGED <<fileStatus, validationStats>>
  /\ UNCHANGED <<now, host, lastLoad, harnessVars, uiFixed>>

NextBatch == Start \/ HashFile \/ ForcedLoad \/ ChainLoad \/ LoadAll

SpecBatch == InitBatch /\ [][NextBatch]_vars

(***************************************************************************)
(* Properties of validateROMs                                              *)
(***************************************************************************)
MatchedStatus == {"valid", "renamed"}

\* the extension of a name, taken from its last "." and lowercased
NameExtension(name) ==
  IF LastIndexOfDot(name) < 0
    THEN <<>>
    ELSE ToLowerCase(Substring(name, LastIndexOfDot(name)))

IsCueName(name) == NameExtension(name) = Ext.ecue

\* C5: validateROMs never hashes, never loads a catalog for and never returns
\* an outcome for a file whose extension, taken from the last "." and compared
\* case-insensitively, is .cue, forced platform or not.
C5_CueFilesNeverProcessed ==
  /\ \A k \in 1..Len(hashed) : ~IsCueName(hashed[k].name)
  /\ \A k \in 1..Len(history) : ~IsCueName(history[k].file.name)
  /\ pc \in {"forced", "chain", "all"} => ~IsCueName(validFiles[i].name)

\* the outcome carries the filename, the size and the digests of the file
Carries(outcome, file) ==
  /\ outcome.filename = <<file.name>>
  /\ outcome.size = <<file.size>>
  /\ outcome.hashes = <<calculateFileHashes(file, host)>>

PrimarySteps(tr) == SelectSeq(tr, LAMBDA s : s.phase = "primary")

SeveralCandidates(file) == Len(getPlatformsForFile(file.name)) > 1

\* C7: for a file with several candidates the candidates are loaded and
\* matched one at a time in the ordered list; the first candidate that yields
\* valid or renamed gives the file's result, and no catalog of a later
\* candidate is loaded for the file.
C7_FirstMatchEndsTheChain ==
  /\ \A k \in 1..Len(trace) : trace[k].status \notin MatchedStatus
  /\ \A n \in 1..Len(history) :
       LET h == history[n]
           p == PrimarySteps(h.trace)
       IN  SeveralCandidates(h.file) =>
             /\ Len(p) <= Len(h.ordered)
             /\ \A k \in 1..Len(p) :
                  /\ p[k].platform = h.ordered[k]
                  /\ \A f \in Range(p[k].fetched) :
                       \A j \in (k+1)..Len(h.ordered) : f[2] # h.ordered[j]
                  /\ p[k].status \in MatchedStatus =>
                       /\ k = Len(p)
                       /\ h.trace[Len(h.trace)] = p[k]
                       /\ h.result = p[k].outcome

\* a file with several candidates whose second candidate matched while a
\* third one was left
C7_Witness ==
  \E n \in 1..Len(history) :
    LET h == history[n]
        p == PrimarySteps(h.trace)
    IN  /\ SeveralCandidates(h.file)
        /\ Len(p) = 2
        /\ Len(h.ordered) > 2
        /\ p[1].status = "unknown"
        /\ p[2].status \in MatchedStatus
        /\ h.result.status \in MatchedStatus

Position(s, x) == CHOOSE k \in 1..Len(s) : s[k] = x

Occurrences(s, x) == Cardinality({k \in 1..Len(s) : s[k] = x})

\* o is the order the claim gives for the registry list reg and the guess
TriedOrder(reg, guess, o) ==
  /\ \A x \in Range(reg) \cup Range(o) :
       Occurrences(o, x) = Occurrences(reg, x)
  /\ IF guess \in Range(reg)
       THEN /\ o[1] = guess
            /\ \A a, b \in 2..Len(o) :
                 a < b => Position(reg, o[a]) < Position(reg, o[b])
       ELSE o = reg

\* C8: with more than one candidate in the registry list, catalogs are tried
\* with the classifier's guess first if it is in the list and the others in
\* registry order after it, and in registry order if it is not; the tried
\* list is a permutation of the registry list.
C8_GuessFirstThenRegistryOrder ==
  /\ phase = "primary" =>
       TriedOrder(getPlatformsForFile(validFiles[i].name),
                  detectPlatformFromName(validFiles[i].name,
                                         validFiles[i].size),
                  orderedPlatforms)
  /\ \A n \in 1..Len(history) :
       LET h == history[n]
           reg == getPlatformsForFile(h.file.name)
           p == PrimarySteps(h.trace)
       IN  (SeveralCandidates(h.file) /\ Len(p) > 0) =>
             /\ TriedOrder(reg,
                           detectPlatformFromName(h.file.name, h.file.size),
                           h.ordered)
             /\ \A k \in 1..Len(p) : p[k].platform = h.ordered[k]

\* a file whose guess is a candidate but not the first of the registry list,
\* and for which the guess and then another candidate were tried
C8_Witness ==
  \E n \in 1..Len(history) :
    LET h == history[n]
        reg == getPlatformsForFile(h.file.name)
        guess == detectPlatformFromName(h.file.name, h.file.size)
        p == PrimarySteps(h.trace)
    IN  /\ Len(reg) > 1
        /\ guess \in Range(reg)
        /\ reg[1] # guess
        /\ Len(p) >= 2
        /\ p[1].platform = guess
        /\ p[2].platform = reg[1]

IsPrefix(s, t) == Len(s) <= Len(t) /\ s = SubSeq(t, 1, Len(s))

\* the loads the automatic chain makes for a file when nothing matches
AutoPlan(file) ==
  LET reg == getPlatformsForFile(file.name)
      o == OrderedPlatforms(reg, detectPlatformFromName(file.name, file.size))
  IN  IF Len(reg) = 0 THEN <<"*">>
      ELSE IF Len(reg) = 1 THEN reg
      ELSE o \o SelectSeq(FallbackPlatforms(FileExt(file.name), FALSE),
                          LAMBDA q : q \notin Range(o))
             \o <<o[1]>>

\* tr is a run of the automatic chain for the file: it follows the plan,
\* goes on only after unknown, and stops early only on a match or an error
AutoRun(file, tr) ==
  /\ Len(tr) >= 1
  /\ IsPrefix([k \in 1..Len(tr) |-> tr[k].platform], AutoPlan(file))
  /\ \A k \in 1..(Len(tr) - 1) : tr[k].status = "unknown"
  /\ Len(tr) < Len(AutoPlan(file)) =>
       tr[Len(tr)].status \in MatchedStatus \cup {"threw"}

ResultOf(tr, r) ==
  tr[Len(tr)].status # "threw" => r = tr[Len(tr)].outcome

\* C9: with a forced platform, its catalog is the first loaded for each file;
\* if it yields valid or renamed that outcome is the result and nothing else
\* is loaded for the file; if it yields unknown the file goes through the
\* chain that files go through when no platform is forced.
C9_ForcedFirstThenAutomaticChain ==
  \A n \in 1..Len(history) :
    LET h == history[n]
    IN  IF h.forced = <<>>
          THEN AutoRun(h.file, h.trace) /\ ResultOf(h.trace, h.result)
          ELSE /\ h.trace[1].platform = h.forced[1]
               /\ h.trace[1].phase = "forced"
               /\ \A f \in Range(h.trace[1].fetched) :
                    f[2] \in {h.forced[1], "Nintendo DS Encrypted (Bundled)"}
               /\ h.trace[1].status \in MatchedStatus =>
                    Len(h.trace) = 1 /\ h.result = h.trace[1].outcome
               /\ h.trace[1].status = "unknown" =>
                    /\ AutoRun(h.file, Tail(h.trace))
                    /\ ResultOf(h.trace, h.result)

\* a forced platform that gave unknown, after which the chain tried two
\* candidates and the second one matched
C9_Witness ==
  \E n \in 1..Len(history) :
    LET h == history[n]
    IN  /\ h.forced # <<>>
        /\ Len(h.trace) = 3
        /\ h.trace[1].status = "unknown"
        /\ h.trace[2].status = "unknown"
        /\ h.trace[3].status \in MatchedStatus
        /\ h.result.status \in MatchedStatus

\* a forced platform that matched at once
C9_WitnessMatched ==
  \E n \in 1..Len(history) :
    LET h == history[n]
    IN  /\ h.forced # <<>>
        /\ Len(h.trace) = 1
        /\ h.result.status \in MatchedStatus

(***************************************************************************)
(* Read paths of the cache browser (datLoader.ts)                          *)
(***************************************************************************)
\* isExpired || !isValidVersion, as getCachedDATs and getRawDATContent
\* compute it, and as loadFromPersistentCache does in hours
Stale(record, t) ==
  \/ record.version # CACHE_VERSION
  \/ t - record.timestamp > CACHE_EXPIRY_HOURS

\* entries.length of a stored value; undefined for a value without length
EntryCount(value) == IF value.isArray THEN <<Len(value.items)>> ELSE <<>>

\* browseCachedDAT: the optional value returned and both tiers as left
browseCachedDAT(platform, source, mem, store, t, net) ==
  LET l == loadBundledDAT(platform, mem, store, t, net)
      c == loadFromPersistentCache(platform, source, store, t)
  IN  IF source = "bundled"
        THEN [value |-> <<l.value>>, mem |-> l.mem, store |-> l.store]
        ELSE [value |-> c.entries, mem |-> mem, store |-> c.store]

\* the display name getCachedDATs gives a bundled platform
DisplayName(platform) ==
  IF platform = "Nintendo DS Encrypted (Bundled)"
    THEN "Nintendo DS (Encrypted)"
    ELSE platform

\* getCachedDATs: what the list holds (it is returned sorted by source, then
\* by platform) and the durable tier as left.  The first loop reads every
\* record and lists the valid ones that are not bundled; the second loop
\* lists the bundled platforms held in memory, and reads the durable tier
\* through loadFromPersistentCache only when the first loop listed something
getCachedDATs(mem, store, t) ==
  LET others ==
        {[platform |-> key[2], source |-> key[1],
          entryCount |-> EntryCount(store[key].entries)] :
           key \in {k \in DOMAIN store :
                      /\ k # OtherDataKey
                      /\ ~Stale(store[k], t)
                      /\ k[1] # "bundled"}}
      hasOtherCachedDATs == others # {}
      bundledKeys == {<<"bundled", BUNDLED_DATS[k]>> :
                        k \in 1..Len(BUNDLED_DATS)}
      inMemory ==
        {[platform |-> DisplayName(key[2]), source |-> "bundled",
          entryCount |-> EntryCount(mem[key].value)] :
           key \in bundledKeys \cap DOMAIN mem}
      read == {key \in (bundledKeys \cap DOMAIN store) \ DOMAIN mem :
                 hasOtherCachedDATs}
      inStore ==
        {[platform |-> DisplayName(key[2]), source |-> "bundled",
          entryCount |-> EntryCount(store[key].entries)] :
           key \in {k \in read : ~Stale(store[k], t)}}
  IN  [value |-> others \cup inMemory \cup inStore,
       store |-> [key \in DOMAIN store \ {k \in read : Stale(store[k], t)}
                    |-> store[key]]]

\* getRawDATContent: the optional text returned, kept as the entries it
\* renders; the bundled source is fetched again, the other sources are read
\* from the durable tier, and an invalid record gives null
getRawDATContent(platform, source, store, t, net) ==
  LET actualPlatform ==
        IF platform = "Nintendo DS (Encrypted)"
          THEN "Nintendo DS Encrypted (Bundled)"
          ELSE platform
      key == <<source, platform>>
  IN  IF source = "bundled"
        THEN IF \A k \in 1..Len(BUNDLED_DATS) : BUNDLED_DATS[k] # actualPlatform
               THEN <<>>
             ELSE IF net[<<"bundled", actualPlatform>>].kind = "throw"
               THEN <<>>
             ELSE <<net[<<"bundled", actualPlatform>>].doc>>
      ELSE IF key \notin DOMAIN store THEN <<>>
      ELSE IF Stale(store[key], t) THEN <<>>
      ELSE IF ~store[key].entries.isArray THEN <<>>
      ELSE <<store[key].entries.items>>

\* contents of the durable tier when the browser is opened
BundledKey == <<"bundled", "Nintendo DS Encrypted (Bundled)">>

CachedBundled ==
  Arr(parseDAT(<<DocEntry(<<"e">>, "c3", Size64MB)>>, BundledKey[2]))

BrowseStores ==
  {Put(s, BundledKey, r) :
     s \in InitialStores,
     r \in {Record(CachedBundled, -12, CACHE_VERSION),
            Record(CachedBundled, -36, CACHE_VERSION)}}
  \cup InitialStores

BrowseSources == {"bundled", "libretro"}

BrowsePlatforms == {"PSP", "Nintendo DS (Encrypted)", BundledKey[2]}

InitReads ==
  /\ IdleHarness
  /\ IdleUI
  /\ IdleBatch
  /\ datCache = <<>>
  /\ localStorage \in BrowseStores
  /\ now = 0
  /\ host \in Hosts
  /\ lastLoad = <<>>

\* the record of a call of a read path
ReadRecord(op, platform, source, value) ==
  <<[op |-> op, platform |-> platform, source |-> source, value |-> value,
     at |-> now]>>

CallBrowseCachedDAT ==
  \E p \in BrowsePlatforms, s \in BrowseSources :
    LET b == browseCachedDAT(p, s, datCache, localStorage, now, host.net)
    IN  /\ datCache' = b.mem
        /\ localStorage' = b.store
        /\ lastLoad' = ReadRecord("browseCachedDAT", p, s, b.value)
        /\ UNCHANGED <<now, host, harnessVars, batchVars,
                     uiVars>>

CallGetCachedDATs ==
  LET g == getCachedDATs(datCache, localStorage, now)
  IN  /\ localStorage' = g.store
      /\ lastLoad' = ReadRecord("getCachedDATs", "*", "*", g.value)
      /\ UNCHANGED <<datCache, now, host, harnessVars, batchVars,
                     uiVars>>

CallGetRawDATContent ==
  \E p \in BrowsePlatforms, s \in BrowseSources :
    /\ lastLoad' = ReadRecord("getRawDATContent", p, s,
                     getRawDATContent(p, s, localStorage, now, host.net))
    /\ UNCHANGED <<datCache, localStorage, now, host, harnessVars, batchVars,
                     uiVars>>

NextReads ==
  \/ CallBrowseCachedDAT
  \/ CallGetCachedDATs
  \/ CallGetRawDATContent
  \/ CallLoadLibretroDAT
  \/ CallLoadBundledDAT
  \/ Tick
  \/ Reload

SpecReads == InitReads /\ [][NextReads]_vars

\* the call recorded in rec read the durable record under key (the memory
\* tier mem answers a load before the durable tier is looked at)
Accessed(rec, key, mem) ==
  CASE rec.op \in {"browseCachedDAT", "getRawDATContent"}
         /\ rec.source # "bundled" ->
         key = <<rec.source, rec.platform>>
    [] rec.op = "browseCachedDAT" /\ rec.source = "bundled" ->
         key = <<"bundled", rec.platform>> /\ key \notin DOMAIN mem
    [] rec.op = "getCachedDATs" -> key[1] # "bundled"
    [] rec.op = "loadLibretroDAT" ->
         key = <<"libretro", rec.platform>> /\ key \notin DOMAIN mem
    [] rec.op = "loadBundledDAT" ->
         key = <<"bundled", rec.platform>> /\ key \notin DOMAIN mem
    [] OTHER -> FALSE

\* C11: whenever a read path (a load, browseCachedDAT, getCachedDATs,
\* getRawDATContent) reads a durable record that is expired or has another
\* version, that call removes the record from the durable tier.
C11_StaleRecordRemovedOnAccess ==
  [][(now' = now /\ lastLoad' # <<>>) =>
       \A key \in DOMAIN localStorage :
         (Stale(localStorage[key], now)
            /\ Accessed(lastLoad'[1], key, datCache)) =>
           key \notin DOMAIN localStorage']_vars


(***************************************************************************)
(* Failing fetches                                                         *)
(***************************************************************************)
FetchFailed(key) == host.net[key].kind \in {"throw", "notok"}

\* the catalog of the step was fetched, and every fetch of it failed
AllFetchesFailed(s) ==
  /\ s.fetched # <<>>
  /\ \A key \in Range(s.fetched) : FetchFailed(key)
  /\ s.platform = "*" => Len(s.fetched) = Len(AllSources)

LibretroDSKey == <<"libretro", "Nintendo DS">>

\* the value of f at key, if any
At(f, key) == IF key \in DOMAIN f THEN <<f[key]>> ELSE <<>>

\* C13: loadPlatformDAT for Nintendo DS attempts the bundled variant first
\* and the remote variant only if the bundled one gave zero entries; for
\* every other platform the bundled variant is not attempted.
C13_BundledBeforeRemoteForDSOnly ==
  [][(/\ now' = now
      /\ lastLoad' # <<>>
      /\ lastLoad'[1].op = "loadPlatformDAT") =>
       LET r == lastLoad'[1]
           b == loadBundledDAT(BundledKey[2], datCache, localStorage, now,
                               host.net)
           l == loadLibretroDAT("Nintendo DS", b.mem, b.store, now, host.net)
       IN  IF r.platform = "Nintendo DS"
             THEN IF NonEmpty(b.value)
                    THEN /\ r.value = b.value
                         /\ r.fetched = b.fetched
                         /\ datCache' = b.mem
                         /\ localStorage' = b.store
                    ELSE /\ r.value = l.value
                         /\ r.fetched = b.fetched \o l.fetched
                         /\ datCache' = l.mem
                         /\ localStorage' = l.store
             ELSE /\ BundledKey \notin Range(r.fetched)
                  /\ At(datCache', BundledKey) = At(datCache, BundledKey)
                  /\ At(localStorage', BundledKey)
                       = At(localStorage, BundledKey)]_vars

\* a Nintendo DS load that fetched the bundled catalog, found it empty, and
\* then fetched the remote one
C13_Witness ==
  /\ lastLoad # <<>>
  /\ lastLoad[1].op = "loadPlatformDAT"
  /\ lastLoad[1].platform = "Nintendo DS"
  /\ lastLoad[1].fetched = <<BundledKey, LibretroDSKey>>
  /\ NonEmpty(lastLoad[1].value)


(***************************************************************************)
(* Nintendo DS files and the two Nintendo DS catalogs                      *)
(***************************************************************************)
\* the document the host serves under key holds an entry with a digest of
\* the file
ServedWithEntryFor(key, digests) ==
  /\ host.net[key].kind = "ok"
  /\ \E e \in Range(host.net[key].doc) : EntryEqualsFile(e, digests)

NoStepThrew(tr) == \A k \in 1..Len(tr) : tr[k].status # "threw"

\* C14: a .nds file whose digest matches an entry of the standard remote
\* Nintendo DS catalog is reported valid or renamed, also when the bundled
\* encrypted catalog loaded with entries and has none for the file.
C14_StandardDSCatalogIsConsulted ==
  \A n \in 1..Len(history) :
    LET h == history[n]
    IN  (/\ NameExtension(h.file.name) = Ext.ends
         /\ ServedWithEntryFor(LibretroDSKey, h.hashes)
         /\ NoStepThrew(h.trace)) =>
          h.result.status \in MatchedStatus

(***************************************************************************)
(* uploadCustomDAT (datLoader.ts), followed by a validateROMs call         *)
(***************************************************************************)
\* the characters of s joined into one string
RECURSIVE Join(_)
Join(s) == IF s = <<>> THEN "" ELSE Head(s) \o Join(Tail(s))

\* s matches the lower-case pattern pat under the i flag
MatchesIgnoreCase(s, pat) ==
  /\ Len(s) = Len(pat)
  /\ \A k \in 1..Len(pat) : s[k] = pat[k] \/ s[k] = ToUpperChar(pat[k])

\* name.replace(/\.(dat|xml)$/i, "")
StripDatXml(name) ==
  IF /\ Len(name) >= 4
     /\ \/ MatchesIgnoreCase(SubSeq(name, Len(name) - 3, Len(name)),
                             <<".", "d", "a", "t">>)
        \/ MatchesIgnoreCase(SubSeq(name, Len(name) - 3, Len(name)),
                             <<".", "x", "m", "l">>)
    THEN SubSeq(name, 1, Len(name) - 4)
    ELSE name

\* uploadCustomDAT: the result object and both tiers as left; a file whose
\* text cannot be read ends in the catch
uploadCustomDAT(file, mem, store, t) ==
  LET platform == "Custom - " \o Join(StripDatXml(file.name))
      entries == parseDAT(file.doc, platform)
  IN  IF ~file.readable
        THEN [success |-> FALSE, platform |-> "", entryCount |-> 0,
              error |-> <<"Unknown error">>, mem |-> mem, store |-> store]
      ELSE IF Len(entries) = 0
        THEN [success |-> FALSE, platform |-> platform, entryCount |-> 0,
              error |-> <<"No valid entries found in DAT file">>,
              mem |-> mem, store |-> store]
      ELSE [success |-> TRUE, platform |-> platform,
            entryCount |-> Len(entries), error |-> <<>>,
            mem |-> Put(mem, <<"custom", platform>>,
                        [value |-> Arr(entries), storedAt |-> t,
                         version |-> CACHE_VERSION]),
            store |-> saveToPersistentCache(platform, "custom", entries,
                                            store, t)]

\* catalog documents a user uploads
CustomDoc == <<DocEntry(<<"g">>, "c4", Size64MB)>>

UploadFiles ==
  {[name |-> <<"m", "y", ".", "d", "a", "t">>, doc |-> CustomDoc,
    readable |-> TRUE],
   [name |-> <<"M", "Y", ".", "X", "m", "L">>, doc |-> CustomDoc,
    readable |-> TRUE],
   [name |-> <<"m", ".", "d", "a", "t", ".", "x", "m", "l">>,
    doc |-> CustomDoc, readable |-> TRUE],
   [name |-> <<"m", "y">>, doc |-> CustomDoc, readable |-> TRUE],
   [name |-> <<"e", ".", "d", "a", "t">>, doc |-> <<>>, readable |-> TRUE],
   [name |-> <<"u", ".", "d", "a", "t">>, doc |-> CustomDoc,
    readable |-> FALSE]}

\* files validated after the upload
CustomFiles ==
  {[name |-> <<"a">> \o Ext.egba, size |-> Size64MB, content |-> "c4"],
   [name |-> <<"a">> \o Ext.ends, size |-> Size64MB, content |-> "c4"],
   [name |-> <<"a">>, size |-> Size64MB, content |-> "c4"],
   [name |-> <<"a">> \o Ext.egba, size |-> Size64MB, content |-> "c1"]}

\* the durable tier before the upload: empty, or filled by other data
CustomStores ==
  {<<>>, [key \in {OtherDataKey} |-> [bytes |-> "quota"]]}

CustomHosts == {h \in Hosts : h.net # NetBundled}

InitCustom ==
  /\ IdleHarness
  /\ IdleUI
  /\ datCache = <<>>
  /\ localStorage \in CustomStores
  /\ now = 0
  /\ host \in CustomHosts
  /\ lastLoad \in {<<[op |-> "file", file |-> f]>> : f \in UploadFiles}
  /\ files \in SeqsUpTo(CustomFiles, MaxFiles) \ {<<>>}
  /\ forcePlatform \in {<<>>, <<"PSP">>}
  /\ pc = "upload"
  /\ validFiles = <<>>
  /\ i = 1
  /\ hashes = <<>>
  /\ orderedPlatforms = <<>>
  /\ phase = "none"
  /\ todo = <<>>
  /\ results = <<>>
  /\ trace = <<>>
  /\ hashed = <<>>
  /\ history = <<>>

\* the user uploads the chosen catalog file; validation is started after
Upload ==
  /\ pc = "upload"
  /\ LET u == uploadCustomDAT(lastLoad[1].file, datCache, localStorage, now)
     IN  /\ datCache' = u.mem
         /\ localStorage' = u.store
         /\ lastLoad' = <<[op |-> "uploadCustomDAT",
                           file |-> lastLoad[1].file,
                           success |-> u.success, platform |-> u.platform,
                           entryCount |-> u.entryCount, error |-> u.error]>>
  /\ pc' = "start"
  /\ UNCHANGED <<now, host, files, forcePlatform, validFiles, i, hashes,
                 orderedPlatforms, phase, todo, results, trace, hashed,
                 history, harnessVars, uiVars>>

NextCustom ==
  Upload \/ Start \/ HashFile \/ ForcedLoad \/ ChainLoad \/ LoadAll

SpecCustom == InitCustom /\ [][NextCustom]_vars

\* the memory tier holds a custom catalog with an entry for the digests
CustomCatalogHasEntryFor(digests) ==
  \E key \in DOMAIN datCache :
    /\ key[1] = "custom"
    /\ \E e \in Range(datCache[key].value.items) : EntryEqualsFile(e, digests)

\* C15: after uploadCustomDAT succeeded, validateROMs reports valid or
\* renamed a file whose digest matches an entry of the custom catalog (and of
\* no other catalog).
C15_CustomCatalogIsConsulted ==
  \A n \in 1..Len(history) :
    LET h == history[n]
    IN  (/\ lastLoad[1].op = "uploadCustomDAT"
         /\ lastLoad[1].success
         /\ CustomCatalogHasEntryFor(h.hashes)
         /\ NoStepThrew(h.trace)) =>
          h.result.status \in MatchedStatus

\* the name without its extension when that is .dat or .xml in any case
BasenameWithoutDatXml(name) ==
  IF NameExtension(name) \in {<<".", "d", "a", "t">>, <<".", "x", "m", "l">>}
    THEN SubSeq(name, 1, LastIndexOfDot(name))
    ELSE name

\* C16: uploadCustomDAT parses the document under the label "Custom - " and
\* the name without .dat/.xml; with at least one entry it returns success and
\* both tiers hold exactly those entries under the custom source; with zero
\* entries it returns a failure and leaves both tiers unchanged.
C16_UploadStoresInBothTiers ==
  [][(pc = "upload" /\ pc' = "start" /\ lastLoad[1].file.readable) =>
       LET r == lastLoad'[1]
           label == "Custom - " \o Join(BasenameWithoutDatXml(r.file.name))
           key == <<"custom", label>>
           parsed == [k \in 1..Len(r.file.doc) |->
                        [r.file.doc[k] EXCEPT !.platform = <<label>>]]
       IN  /\ r.platform = label
           /\ IF Len(parsed) > 0
                THEN /\ r.success
                     /\ r.entryCount = Len(parsed)
                     /\ key \in DOMAIN datCache'
                     /\ datCache'[key].value = Arr(parsed)
                     /\ key \in DOMAIN localStorage'
                     /\ localStorage'[key].entries = Arr(parsed)
                     /\ \A other \in DOMAIN datCache' \ {key} :
                          At(datCache', other) = At(datCache, other)
                     /\ \A other \in DOMAIN localStorage' \ {key} :
                          At(localStorage', other) = At(localStorage, other)
                ELSE /\ ~r.success
                     /\ r.error # <<>>
                     /\ datCache' = datCache
                     /\ localStorage' = localStorage]_vars


(***************************************************************************)
(* The upload panel (Header.tsx): startValidation and cancelValidation     *)
(***************************************************************************)
SessionFiles ==
  {[name |-> <<"a">> \o Ext.egba, size |-> Size64MB, content |-> "c1"],
   [name |-> <<"b">> \o Ext.ends, size |-> Size64MB, content |-> "c1"],
   [name |-> <<"u">> \o Ext.egba, size |-> Size64MB,
    content |-> "unreadable"],
   [name |-> <<"a">> \o Ext.ecue, size |-> Size64MB, content |-> "c3"],
   [name |-> <<"a">>, size |-> Size64MB, content |-> "c1"]}

SessionStores ==
  {<<>>,
   [key \in {<<"libretro", "Game Boy Advance">>} |->
      Record(NotAnArray, 0, CACHE_VERSION)]}

AllStatus(s) == [k \in 1..Len(files) |-> s]

InitSession ==
  /\ IdleHarness
  /\ datCache = <<>>
  /\ localStorage \in SessionStores
  /\ now = 0
  /\ host \in {h \in Hosts : h.net = NetStandard}
  /\ lastLoad = <<>>
  /\ files \in SeqsUpTo(SessionFiles, MaxFiles) \ {<<>>}
  /\ forcePlatform \in {<<>>, <<"PSP">>}
  /\ pc = "idle"
  /\ validFiles = <<>>
  /\ i = 1
  /\ hashes = <<>>
  /\ orderedPlatforms = <<>>
  /\ phase = "none"
  /\ todo = <<>>
  /\ results = <<>>
  /\ trace = <<>>
  /\ hashed = <<>>
  /\ history = <<>>
  /\ onProgress = <<>>
  /\ fileStatus = AllStatus("pending")
  /\ isValidating = FALSE
  /\ showProgress = FALSE
  /\ validationStats = <<>>
  /\ validationResults = <<>>
  /\ cancelled = <<>>

\* startValidation up to the call of validateROMs
StartValidation ==
  /\ pc = "idle"
  /\ files # <<>>
  /\ isValidating' = TRUE
  /\ showProgress' = TRUE
  /\ validationStats' = <<[processedFiles |-> 0, currentStage |-> "hashing"]>>
  /\ onProgress' = <<"ui">>
  /\ pc' = "start"
  /\ UNCHANGED <<files, forcePlatform, validFiles, i, hashes,
                 orderedPlatforms, phase, todo, results, trace, hashed,
                 history, fileStatus, validationResults, cancelled,
                 loaderVars, harnessVars>>

\* startValidation after validateROMs has resolved
Complete ==
  /\ pc = "returned"
  /\ fileStatus' = AllStatus("completed")
  /\ validationStats' =
       IF validationStats = <<>>
         THEN <<>>
         ELSE <<[processedFiles |-> Len(files),
                 currentStage |-> "completed"]>>
  /\ validationResults' = <<results>>
  /\ pc' = "delivered"
  /\ UNCHANGED <<files, forcePlatform, validFiles, i, hashes,
                 orderedPlatforms, phase, todo, results, trace, hashed,
                 history, onProgress, isValidating, showProgress, cancelled,
                 loaderVars, harnessVars>>

\* the timer set by startValidation
ShowResults ==
  /\ pc = "delivered"
  /\ isValidating' = FALSE
  /\ pc' = "done"
  /\ UNCHANGED <<files, forcePlatform, validFiles, i, hashes,
                 orderedPlatforms, phase, todo, results, trace, hashed,
                 history, onProgress, fileStatus, showProgress,
                 validationStats, validationResults, cancelled, loaderVars,
                 harnessVars>>

\* the catch of startValidation, after validateROMs has rejected
Fail ==
  /\ pc = "rejected"
  /\ isValidating' = FALSE
  /\ showProgress' = FALSE
  /\ validationStats' = <<>>
  /\ fileStatus' = AllStatus("error")
  /\ pc' = "failed"
  /\ UNCHANGED <<files, forcePlatform, validFiles, i, hashes,
                 orderedPlatforms, phase, todo, results, trace, hashed,
                 history, onProgress, validationResults, cancelled,
                 loaderVars, harnessVars>>

\* cancelValidation, while the batch is running
CancelValidation ==
  /\ isValidating
  /\ cancelled = <<>>
  /\ pc \in {"start", "hash", "forced", "chain", "all"}
  /\ isValidating' = FALSE
  /\ showProgress' = FALSE
  /\ validationStats' = <<>>
  /\ fileStatus' = AllStatus("pending")
  /\ cancelled' = <<[hashed |-> Len(hashed), results |-> Len(results),
                     pc |-> pc]>>
  /\ UNCHANGED <<files, forcePlatform, pc, validFiles, i, hashes,
                 orderedPlatforms, phase, todo, results, trace, hashed,
                 history, onProgress, validationResults, loaderVars,
                 harnessVars>>

NextSession ==
  \/ StartValidation
  \/ Start
  \/ HashFile
  \/ ForcedLoad
  \/ ChainLoad
  \/ LoadAll
  \/ Complete
  \/ ShowResults
  \/ Fail
  \/ CancelValidation

SpecSession == InitSession /\ [][NextSession]_vars

\* C17: once the user has requested cancellation during a batch, no further
\* file is hashed, no catalog is loaded for the remaining files, and only
\* the outcomes computed by then (with that of the file in progress) are
\* returned.
C17_CancelStopsTheBatch ==
  cancelled # <<>> =>
    /\ Len(hashed) <=
         cancelled[1].hashed
           + (IF cancelled[1].pc \in {"start", "hash"} THEN 1 ELSE 0)
    /\ Len(results) <= cancelled[1].results + 1
    /\ validationResults # <<>> =>
         Len(validationResults[1]) <= cancelled[1].results + 1

\* C18: an exception while hashing or matching one file gives an error for
\* that file only: the other files are still processed, none of them is
\* marked with the error, and the outcomes computed are delivered.
C18_ErrorStaysWithItsFile ==
  (pc \in {"done", "failed"} /\ cancelled = <<>>) =>
    /\ \A k \in 1..Len(files) :
         (files[k].content # "unreadable" /\ IsValidFile(files[k])) =>
           /\ fileStatus[k] # "error"
           /\ \E n \in 1..Len(history) : history[n].file = files[k]
    /\ history # <<>> =>
         /\ validationResults # <<>>
         /\ \A n \in 1..Len(history) :
              \E m \in 1..Len(validationResults[1]) :
                validationResults[1][m] = history[n].result



(***************************************************************************)
(* One file with and without a forced platform, from the same cache state  *)
(***************************************************************************)
ForceFiles == {f \in BatchFiles : IsValidFile(f)}

ForcePlatforms == {"PSP", "Nintendo DS", "Game Boy Advance"}

InitForce ==
  /\ IdleHarness
  /\ IdleUI
  /\ datCache = <<>>
  /\ localStorage \in BatchStores
  /\ now = 0
  /\ host \in Hosts
  /\ lastLoad = <<>>
  /\ files \in {<<f>> : f \in ForceFiles}
  /\ forcePlatform = <<>>
  /\ pc = "compare"
  /\ validFiles = <<>>
  /\ i = 1
  /\ hashes = <<>>
  /\ orderedPlatforms = <<>>
  /\ phase = "none"
  /\ todo = <<>>
  /\ results = <<>>
  /\ trace = <<>>
  /\ hashed = <<>>
  /\ history = <<>>

\* an earlier load in the same page fills the memory tier
Preload ==
  /\ pc = "compare"
  /\ datCache = <<>>
  /\ \E p \in {"PSP", "Game Boy Advance"} :
       LET l == loadPlatformDAT(p, datCache, localStorage, now, host.net)
       IN  /\ datCache' = l.mem
           /\ localStorage' = l.store
  /\ UNCHANGED <<now, host, lastLoad, batchVars, harnessVars, uiVars>>

\* validateROMs(files) is called without a forced platform; the state of the
\* two tiers is kept for the second call
Unforced ==
  /\ pc = "compare"
  /\ baseline' = <<[mem |-> datCache, store |-> localStorage]>>
  /\ pc' = "start"
  /\ UNCHANGED <<mFile, mHashes, mEntries, mResult, parse, files,
                 forcePlatform,
                 validFiles, i, hashes, orderedPlatforms, phase, todo,
                 results, trace, hashed, history, loaderVars, uiVars>>

\* validateROMs(files, undefined, p) is called for the same file, with the
\* two tiers as they were before the first call
Forced ==
  /\ pc = "returned"
  /\ forcePlatform = <<>>
  /\ baseline # <<>>
  /\ \E p \in ForcePlatforms : forcePlatform' = <<p>>
  /\ datCache' = baseline[1].mem
  /\ localStorage' = baseline[1].store
  /\ pc' = "start"
  /\ validFiles' = <<>>
  /\ i' = 1
  /\ results' = <<>>
  /\ UNCHANGED <<files, hashes, orderedPlatforms, phase, todo, trace, hashed,
                 history, now, host, lastLoad, harnessVars, uiVars>>

NextForce ==
  \/ Preload
  \/ Unforced
  \/ Forced
  \/ Start
  \/ HashFile
  \/ ForcedLoad
  \/ ChainLoad
  \/ LoadAll

SpecForce == InitForce /\ [][NextForce]_vars

Idempotent(name) ==
  normalizeFilename(normalizeFilename(name)) = normalizeFilename(name)

\* C20: normalizeFilename is idempotent: for the file name and for every
\* catalog entry name that validateROM compares, normalizing the normalized
\* name gives the normalized name again.
C20_NormalizeFilenameIdempotent ==
  (mResult # <<>> /\ mResult[1].matchedIndex # 0) =>
    /\ Idempotent(mFile.name)
    /\ \A k \in 1..Len(mEntries) : Idempotent(mEntries[k].name)


(***************************************************************************)
(* Digests of a byte buffer (romValidator.ts): simpleMD5, crc32,           *)
(* calculateFileHashes on the bytes of the file                            *)
(***************************************************************************)
MaxBytes == 2

\* a 32-bit unsigned word as its 8 hexadecimal digits, the highest first
NibbleXor(x, y) ==
  ((x + y) % 2)
    + 2 * (((x \div 2) + (y \div 2)) % 2)
    + 4 * (((x \div 4) + (y \div 4)) % 2)
    + 8 * (((x \div 8) + (y \div 8)) % 2)
ByteWord(b) == <<0, 0, 0, 0, 0, 0, b \div 16, b % 16>>
Xor(a, b) ==
  <<NibbleXor(a[1], b[1]), NibbleXor(a[2], b[2]), NibbleXor(a[3], b[3]),
    NibbleXor(a[4], b[4]), NibbleXor(a[5], b[5]), NibbleXor(a[6], b[6]),
    NibbleXor(a[7], b[7]), NibbleXor(a[8], b[8])>>
\* a >>> 1
ShiftRight1(a) ==
  <<a[1] \div 2,
    (a[2] \div 2) + 8 * (a[1] % 2), (a[3] \div 2) + 8 * (a[2] % 2),
    (a[4] \div 2) + 8 * (a[3] % 2), (a[5] \div 2) + 8 * (a[4] % 2),
    (a[6] \div 2) + 8 * (a[5] % 2), (a[7] \div 2) + 8 * (a[6] % 2),
    (a[8] \div 2) + 8 * (a[7] % 2)>>
\* a >>> 8
ShiftRight8(a) == <<0, 0, a[1], a[2], a[3], a[4], a[5], a[6]>>
\* a & 0xff
LowByte(a) == 16 * a[7] + a[8]
\* a & 1
LowBit(a) == a[8] % 2
AllOnes == <<15, 15, 15, 15, 15, 15, 15, 15>>

HexDigits == <<"0","1","2","3","4","5","6","7","8","9","a","b","c","d","e",
               "f">>
HexValue(c) == (CHOOSE k \in 1..16 : HexDigits[k] = c) - 1

\* the word written as 8 hexadecimal digits, e.g. <<"e","d","b",...>>
WordOfHex(s) ==
  <<HexValue(s[1]), HexValue(s[2]), HexValue(s[3]), HexValue(s[4]),
    HexValue(s[5]), HexValue(s[6]), HexValue(s[7]), HexValue(s[8])>>

RECURSIVE StripLeadingZeros(_)
StripLeadingZeros(s) ==
  IF Len(s) > 1 /\ Head(s) = "0" THEN StripLeadingZeros(Tail(s)) ELSE s

\* Number.prototype.toString(16) of an unsigned 32-bit word
ToString16(a) ==
  StripLeadingZeros(
    <<HexDigits[a[1] + 1], HexDigits[a[2] + 1], HexDigits[a[3] + 1],
      HexDigits[a[4] + 1], HexDigits[a[5] + 1], HexDigits[a[6] + 1],
      HexDigits[a[7] + 1], HexDigits[a[8] + 1]>>)

\* String.prototype.padStart(n, "0")
RECURSIVE PadStart(_, _)
PadStart(s, n) == IF Len(s) >= n THEN s ELSE PadStart(<<"0">> \o s, n)

RECURSIVE ToUpperCase(_)
ToUpperCase(s) ==
  IF s = <<>> THEN <<>> ELSE <<ToUpperChar(Head(s))>> \o ToUpperCase(Tail(s))

\* String.prototype.repeat(4)
Repeat4(s) == s \o s \o s \o s

Polynomial == WordOfHex(<<"e","d","b","8","8","3","2","0">>)

\* c = c & 1 ? 0xedb88320 ^ (c >>> 1) : c >>> 1, n times; v is the value
\* of c
RECURSIVE TableSteps(_, _)
TableSteps(c, n) ==
  IF n = 0
    THEN c
    ELSE CHOOSE r \in
           {TableSteps(IF LowBit(v) = 1
                         THEN Xor(Polynomial, ShiftRight1(v))
                         ELSE ShiftRight1(v),
                       n - 1) : v \in {c}} : TRUE

\* the table of crc32
CrcTable == [n \in 0..255 |-> TableSteps(ByteWord(n), 8)]

\* the byte loop of crc32; v is the value of crc
RECURSIVE CrcLoop(_, _)
CrcLoop(crc, data) ==
  IF data = <<>>
    THEN crc
    ELSE CHOOSE r \in
           {CrcLoop(Xor(CrcTable[LowByte(Xor(v, ByteWord(Head(data))))],
                        ShiftRight8(v)),
                    Tail(data)) : v \in {crc}} : TRUE

\* crc32 without the final complement
crc32_NoComplement(data) ==
  PadStart(ToUpperCase(ToString16(CrcLoop(AllOnes, data))), 8)

\* crc32
crc32(data) ==
  PadStart(ToUpperCase(ToString16(Xor(CrcLoop(AllOnes, data), AllOnes))), 8)

\* the loop of simpleMD5; with at most 5 bytes hash * 31 + data[i] stays
\* below 0xffffffff, so the remainder is the value itself
RECURSIVE SimpleLoop(_, _)
SimpleLoop(hash, data) ==
  IF data = <<>>
    THEN hash
    ELSE SimpleLoop(hash * 31 + Head(data), Tail(data))

\* a number below 2^31 as a word
NumberWord(n) ==
  <<(n \div 268435456) % 16, (n \div 16777216) % 16, (n \div 1048576) % 16,
    (n \div 65536) % 16, (n \div 4096) % 16, (n \div 256) % 16,
    (n \div 16) % 16, n % 16>>

\* simpleMD5
simpleMD5(data) ==
  Repeat4(PadStart(ToString16(NumberWord(SimpleLoop(0, data))), 8))

\* crypto.subtle.digest for a supported algorithm: a string that names the
\* algorithm and the bytes, different for different buffers
RECURSIVE BytesHex(_)
BytesHex(data) ==
  IF data = <<>>
    THEN <<>>
    ELSE <<HexDigits[(Head(data) \div 16) + 1],
           HexDigits[(Head(data) % 16) + 1]>> \o BytesHex(Tail(data))
SubtleDigest(algorithm, data) == <<algorithm>> \o BytesHex(data)

\* how a call of crypto.subtle.digest ends on the host
DigestCalls == {"ok", "unsupported", "error"}

\* calculateFileHashes on the bytes of the file: both catch blocks take
\* every exception of their digest call
calculateBufferHashes(data, h) ==
  [md5 |-> IF h.md5 = "ok" THEN SubtleDigest("5", data) ELSE simpleMD5(data),
   sha1 |-> IF h.sha1 = "ok" THEN SubtleDigest("1", data) ELSE Unavailable,
   crc32 |-> crc32(data)]

Bytes == {0, 97, 255}
Buffers == SeqsUpTo(Bytes, MaxBytes)
NotHashed == [md5 |-> <<>>, sha1 |-> <<>>, crc32 |-> <<>>]

\* catalog entries: a catalog document gives any string as a digest
CatalogBuffers == {<<>>, <<0>>, <<97>>}
HashEntries ==
  [name : {<<"A",".","a">>}, size : {SmallSize},
   md5 : {<<>>} \cup {SubtleDigest("5", d) : d \in CatalogBuffers}
               \cup {simpleMD5(d) : d \in CatalogBuffers},
   sha1 : {<<>>, SubtleDigest("1", <<97>>)},
   crc32 : {<<>>, crc32(<<97>>)},
   platform : {<<"PSP">>}]

InitHash ==
  /\ mFile \in {[name |-> <<"a",".","a">>,
                 size |-> [mb |-> 0, rem |-> Len(d)], data |-> d] :
                  d \in Buffers}
  /\ mHashes = NotHashed
  /\ mEntries = <<>>
  /\ mResult = <<>>
  /\ baseline = <<>>
  /\ parse = <<>>
  /\ datCache = <<>>
  /\ localStorage = <<>>
  /\ now = 0
  /\ host \in [net : {<<>>}, sha1 : DigestCalls, md5 : DigestCalls]
  /\ lastLoad = <<>>
  /\ IdleBatch
  /\ IdleUI

CalculateFileHashes ==
  /\ mHashes = NotHashed
  /\ mHashes' = calculateBufferHashes(mFile.data, host)
  /\ UNCHANGED <<mFile, mEntries, mResult, baseline, parse, loaderVars,
                 batchVars, uiVars>>

HashAddEntry ==
  /\ mHashes # NotHashed
  /\ mResult = <<>>
  /\ mEntries = <<>>
  /\ \E e \in HashEntries : mEntries' = <<e>>
  /\ UNCHANGED <<mFile, mHashes, mResult, baseline, parse, loaderVars,
                 batchVars, uiVars>>

ValidateHashed ==
  /\ mHashes # NotHashed
  /\ mResult = <<>>
  /\ mResult' = <<validateROM(mFile, mHashes, mEntries, <<"No-Intro">>)>>
  /\ UNCHANGED <<mFile, mHashes, mEntries, baseline, parse, loaderVars,
                 batchVars, uiVars>>

NextHash == CalculateFileHashes \/ HashAddEntry \/ ValidateHashed

SpecHash == InitHash /\ [][NextHash]_vars

\* C21: when MD5 is not supported by the host, the placeholder computed by
\* simpleMD5 never makes validateROM report a match: the outcome is the one
\* that SHA-1 and CRC32 alone decide.
C21_PlaceholderNeverMatches ==
  (mResult # <<>> /\ host.md5 = "unsupported") =>
    mResult[1].matchedIndex =
      FindExactMatch(mEntries, [mHashes EXCEPT !.md5 = Unavailable])


\* the outcome does not depend on the digest named
TakesNoPart(field) ==
  mResult # <<>> =>
    mResult[1].matchedIndex =
      FindExactMatch(mEntries, [mHashes EXCEPT ![field] = Unavailable])

\* C22: a SHA-1 or MD5 digest call that fails for another reason than the
\* algorithm being unsupported gives the sentinel "unavailable" for that
\* digest, which takes part in no comparison; the placeholder digest is
\* given only when MD5 is not supported.
C22_FailedDigestIsUnavailable ==
  mHashes # NotHashed =>
    /\ host.sha1 = "error" => (mHashes.sha1 = Unavailable /\ TakesNoPart("sha1"))
    /\ host.md5 = "error" => (mHashes.md5 = Unavailable /\ TakesNoPart("md5"))
    /\ mHashes.md5 = simpleMD5(mFile.data) => host.md5 = "unsupported"

\* the standard reflected CRC-32, bit by bit: the register starts at
\* 0xFFFFFFFF, each byte is added to its low end and the register is divided
\* by the polynomial 0xEDB88320 eight times, and the result is complemented
Bit(a, k) == (a[8 - (k \div 4)] \div (IF k % 4 = 0 THEN 1 ELSE 2 ^ (k % 4))) % 2
ReferenceNibble(v, n) ==
  LET out(k) == ((IF k < 31 THEN Bit(v, k + 1) ELSE 0)
                   + Bit(v, 0) * Bit(Polynomial, k)) % 2
  IN  out(4 * n) + 2 * out(4 * n + 1) + 4 * out(4 * n + 2)
        + 8 * out(4 * n + 3)

RECURSIVE ReferenceBits(_, _)
ReferenceBits(reg, n) ==
  IF n = 0
    THEN reg
    ELSE CHOOSE r \in
           {ReferenceBits(
              <<ReferenceNibble(v, 7), ReferenceNibble(v, 6),
                ReferenceNibble(v, 5), ReferenceNibble(v, 4),
                ReferenceNibble(v, 3), ReferenceNibble(v, 2),
                ReferenceNibble(v, 1), ReferenceNibble(v, 0)>>,
              n - 1) : v \in {reg}} : TRUE

RECURSIVE ReferenceRegister(_, _)
ReferenceRegister(reg, data) ==
  IF data = <<>>
    THEN reg
    ELSE CHOOSE r \in
           {ReferenceRegister(
              ReferenceBits(Xor(v, ByteWord(Head(data))), 8),
              Tail(data)) : v \in {reg}} : TRUE

ReferenceCRC32(data) == Xor(ReferenceRegister(AllOnes, data), AllOnes)

UpperHexChars == DigitChars \cup {"A", "B", "C", "D", "E", "F"}

\* C23: for every buffer, crc32 gives exactly 8 upper-case hexadecimal
\* characters, which spell the standard reflected CRC-32 of the bytes and
\* depend on nothing else; for the buffer [0x61] they are E8B7BE43.
C23_Crc32IsTheStandardCRC ==
  mHashes # NotHashed =>
    /\ Len(mHashes.crc32) = 8
    /\ \A k \in 1..Len(mHashes.crc32) : mHashes.crc32[k] \in UpperHexChars
    /\ WordOfHex([k \in 1..8 |-> Head(ToLowerChar(mHashes.crc32[k]))]) =
         ReferenceCRC32(mFile.data)
    /\ mFile.data = <<97>> =>
         mHashes.crc32 = <<"E","8","B","7","B","E","4","3">>

C23_Witness ==
  /\ mHashes # NotHashed
  /\ mFile.data = <<97>>
  /\ mHashes.crc32 = <<"E","8","B","7","B","E","4","3">>


(***************************************************************************)
(* The line-oriented parser (romValidator.ts): parseClrMameProDAT, one     *)
(* line of the document per step                                           *)
(***************************************************************************)
MaxLines == 3

\* a trimmed line of the document, by what the tests of the loop see in it:
\*   header  clrmamepro (
\*   close   )
\*   game    game (              or   game ( name "G"
\*   rom     rom ( crc ab        or   rom ( name "r" crc ab
\*           and, when closed, the same ending with " )"
\*   name    name "N"            or   name ""  (no match of /name\s+"([^"]+)"/)
\*   crc     crc cd
\*   blank   the empty line
Line(kind, name, closed) == [kind |-> kind, name |-> name, closed |-> closed]
ParserLines ==
  {Line("header", <<>>, FALSE), Line("close", <<>>, FALSE),
   Line("game", <<>>, FALSE), Line("game", <<<<"G">>>>, FALSE),
   Line("rom", <<>>, FALSE), Line("rom", <<<<"r">>>>, FALSE),
   Line("rom", <<>>, TRUE), Line("rom", <<<<"r">>>>, TRUE),
   Line("name", <<<<"N">>>>, FALSE), Line("name", <<>>, FALSE),
   Line("crc", <<>>, FALSE), Line("blank", <<>>, FALSE)}

\* the digest on a rom-opening line, and the one on a crc line of its own
LineCrc == <<"a", "b">>
AttrCrc == <<"c", "d">>
NoSize == [mb |-> 0, rem |-> 0]
EmptyObject == [name |-> <<>>, crc32 |-> <<>>]

\* the locals of parseClrMameProDAT before the loop; romGame (the value of
\* gameCount when the rom block at hand was opened) and origins (for every
\* entry pushed, the game block its rom was opened in and the game block it
\* was pushed in) are history kept beside them
ParserStart(lines, knownPlatform) ==
  [lines |-> lines, knownPlatform |-> knownPlatform, lineIndex |-> 1,
   currentGame |-> EmptyObject, inGame |-> FALSE, inRom |-> FALSE,
   currentRom |-> EmptyObject, inClrMameProHeader |-> FALSE,
   gameCount |-> 0, romGame |-> 0, origins |-> <<>>,
   entries |-> <<>>, returned |-> FALSE]

\* the platform given to an entry
EntryPlatform(knownPlatform, gameName) ==
  IF knownPlatform # <<>>
    THEN knownPlatform
    ELSE IF detectPlatformFromName(gameName, NoSize) # "unknown"
      THEN <<detectPlatformFromName(gameName, NoSize)>>
      ELSE <<>>

\* the end of a rom block pushing an entry whatever names it has
Emit_NoNameCheck(p, rom) ==
  LET gameName == IF p.currentGame.name = <<>> THEN <<>>
                                               ELSE p.currentGame.name[1]
  IN  Append(p.entries,
             [name |-> gameName, size |-> NoSize, md5 |-> <<>>,
              sha1 |-> <<>>, crc32 |-> rom.crc32,
              platform |-> EntryPlatform(p.knownPlatform, gameName)])

\* the end of a rom block: entries.push when currentRom.name and
\* currentGame.name are both truthy
Emit(p, rom) ==
  IF rom.name # <<>> /\ p.currentGame.name # <<>>
    THEN Append(p.entries,
                [name |-> p.currentGame.name[1], size |-> NoSize,
                 md5 |-> <<>>, sha1 |-> <<>>, crc32 |-> rom.crc32,
                 platform |-> EntryPlatform(p.knownPlatform,
                                            p.currentGame.name[1])])
    ELSE p.entries

\* the history of an entries.push: origins grows when entries does
Origins(p, rom, openedIn) ==
  IF Len(Emit(p, rom)) > Len(p.entries)
    THEN Append(p.origins, [opened |-> openedIn, pushed |-> p.gameCount])
    ELSE p.origins

\* attribute lines of a rom block: a field is assigned when its pattern
\* matches the line
RomAttributes(rom, line) ==
  IF line.kind = "name" /\ line.name # <<>>
    THEN [rom EXCEPT !.name = line.name]
  ELSE IF line.kind = "crc"
    THEN [rom EXCEPT !.crc32 = ToUpperCase(AttrCrc)]
  ELSE rom

\* one iteration of the loop over the lines
ParseStep(p) ==
  LET line == p.lines[p.lineIndex]
      next == [p EXCEPT !.lineIndex = p.lineIndex + 1]
      romOfLine == [name |-> line.name, crc32 |-> ToUpperCase(LineCrc)]
  IN  IF line.kind = "header"
        THEN [next EXCEPT !.inClrMameProHeader = TRUE]
      ELSE IF p.inClrMameProHeader /\ line.kind = "close"
        THEN [next EXCEPT !.inClrMameProHeader = FALSE]
      ELSE IF p.inClrMameProHeader
        THEN next
      ELSE IF line.kind = "game"
        THEN [next EXCEPT !.inGame = TRUE,
                          !.gameCount = p.gameCount + 1,
                          !.currentGame = [EmptyObject EXCEPT
                                             !.name = line.name]]
      ELSE IF line.kind = "close" /\ p.inGame /\ ~p.inRom
        THEN [next EXCEPT !.inGame = FALSE, !.currentGame = EmptyObject]
      ELSE IF line.kind = "rom" /\ p.inGame
        THEN IF line.closed
               THEN [next EXCEPT !.inRom = FALSE,
                                 !.entries = Emit(p, romOfLine),
                                 !.origins = Origins(p, romOfLine,
                                                     p.gameCount),
                                 !.romGame = p.gameCount,
                                 !.currentRom = EmptyObject]
               ELSE [next EXCEPT !.inRom = TRUE, !.currentRom = romOfLine,
                                 !.romGame = p.gameCount]
      ELSE IF line.kind = "close" /\ p.inRom
        THEN [next EXCEPT !.inRom = FALSE,
                          !.entries = Emit(p, p.currentRom),
                          !.origins = Origins(p, p.currentRom, p.romGame),
                          !.currentRom = EmptyObject]
      ELSE IF p.inRom /\ line.kind # "blank"
        THEN [next EXCEPT !.currentRom = RomAttributes(p.currentRom, line)]
      ELSE IF p.inGame /\ line.kind # "blank"
        THEN IF line.kind = "name" /\ line.name # <<>>
                  /\ p.currentGame.name = <<>>
               THEN [next EXCEPT !.currentGame.name = line.name]
               ELSE next
      ELSE next

InitParse ==
  /\ mFile = [name |-> <<"a">>, size |-> [mb |-> 0, rem |-> 0]]
  /\ mHashes = [md5 |-> <<"0">>, sha1 |-> <<"0">>, crc32 |-> <<"0">>]
  /\ mEntries = <<>>
  /\ mResult = <<>>
  /\ baseline = <<>>
  /\ parse \in {<<ParserStart(lines, known)>> :
                  lines \in SeqsUpTo(ParserLines, MaxLines),
                  known \in {<<>>, <<"PSP">>}}
  /\ IdleLoader
  /\ IdleBatch
  /\ IdleUI

ParseLine ==
  /\ parse # <<>>
  /\ ~parse[1].returned
  /\ parse[1].lineIndex <= Len(parse[1].lines)
  /\ parse' = <<ParseStep(parse[1])>>
  /\ UNCHANGED <<mFile, mHashes, mEntries, mResult, baseline, loaderVars,
                 batchVars, uiVars>>

\* return entries
ParseReturn ==
  /\ parse # <<>>
  /\ ~parse[1].returned
  /\ parse[1].lineIndex > Len(parse[1].lines)
  /\ parse' = <<[parse[1] EXCEPT !.returned = TRUE]>>
  /\ UNCHANGED <<mFile, mHashes, mEntries, mResult, baseline, loaderVars,
                 batchVars, uiVars>>

NextParse == ParseLine \/ ParseReturn

SpecParse == InitParse /\ [][NextParse]_vars

\* the lines read so far
Consumed == SubSeq(parse[1].lines, 1, parse[1].lineIndex - 1)
CountLines(P(_)) ==
  Cardinality({k \in 1..Len(Consumed) : P(Consumed[k])})
NamesARom(line) == line.kind \in {"rom", "name"} /\ line.name # <<>>
NamesAGame(line) == line.kind \in {"game", "name"} /\ line.name # <<>>
EndsABlock(line) ==
  line.kind = "close" \/ (line.kind = "rom" /\ line.closed)

\* C24: on every sequence of lines, unterminated, misnested or empty, the
\* line-oriented parser reads each line once and returns without raising;
\* every entry has a game name, there are no more entries than lines that
\* name a rom and no more than ends of blocks, a document that names no game
\* or no rom gives no entry, and what is returned is the collection built.
C24_OnlyNamedBlocksGiveEntries ==
  parse # <<>> =>
    /\ parse[1].lineIndex \in 1..(Len(parse[1].lines) + 1)
    /\ parse[1].returned => parse[1].lineIndex = Len(parse[1].lines) + 1
    /\ \A k \in 1..Len(parse[1].entries) : parse[1].entries[k].name # <<>>
    /\ Len(parse[1].entries) <= CountLines(NamesARom)
    /\ Len(parse[1].entries) <= CountLines(EndsABlock)
    /\ CountLines(NamesAGame) = 0 => parse[1].entries = <<>>

C24_Witness ==
  /\ parse # <<>>
  /\ parse[1].returned
  /\ Len(parse[1].entries) = 1
  /\ \E k \in 1..Len(parse[1].lines) :
       /\ parse[1].lines[k].kind = "rom"
       /\ parse[1].lines[k].closed
       /\ parse[1].lines[k].name = <<>>


(***************************************************************************)
(* Diagnostics of an unmatched file                                        *)
(***************************************************************************)
SizeMatchIssues ==
  <<"File size matches known ROMs but hashes differ",
    "May be a ROM hack, translation, or different version">>
NoMatchIssues ==
  <<"No matching entries found in DAT files",
    "File may be a ROM hack, homebrew, or unknown dump">>

\* the entries loadPlatformDAT gives for the platform in the present state
EntriesOf(platform) ==
  loadPlatformDAT(platform, datCache, localStorage, now, host.net).value.items

HasSizeMatch(entries, file) ==
  \E k \in 1..Len(entries) : entries[k].size = file.size

ExtensionKeys == {EXTENSION_MAP[k].ext : k \in 1..Len(EXTENSION_MAP)}

\* file names: a stem, then a registered extension, an unregistered one,
\* one in upper case, or none
ExtensionStems ==
  {<<>>, <<"a">>, <<"a", ".", "b">>, <<CapitalIDot>>, <<"A", " ">>}
ExtensionTails ==
  ExtensionKeys \cup {<<>>, Ext.ecue, <<".", "x">>, <<".">>,
                      <<".", "G", "B", "A">>, <<".", "I", "s", "o">>}
ExtensionNames == {s \o t : s \in ExtensionStems, t \in ExtensionTails}

InitExtension ==
  /\ mFile \in [name : ExtensionNames \ {<<>>}, size : {SmallSize}]
  /\ mHashes = [md5 |-> <<"0">>, sha1 |-> <<"0">>, crc32 |-> <<"0">>]
  /\ mEntries = <<>>
  /\ mResult = <<>>
  /\ baseline = <<>>
  /\ parse = <<>>
  /\ IdleLoader
  /\ IdleBatch
  /\ IdleUI

GetPlatformsForFile ==
  /\ mResult = <<>>
  /\ mResult' = <<getPlatformsForFile(mFile.name)>>
  /\ UNCHANGED <<mFile, mHashes, mEntries, baseline, parse, loaderVars,
                 batchVars, uiVars>>

SpecExtension == InitExtension /\ [][GetPlatformsForFile]_vars

\* C26: getPlatformsForFile gives the empty list exactly when the extension
\* of the name, taken from its last "." and lowercased, is not a key of
\* EXTENSION_MAP; otherwise it gives the platforms registered for that key,
\* in their order, and each of them is a key of PLATFORMS.
C26_PlatformsOfRegisteredExtensions ==
  mResult # <<>> =>
    /\ mResult[1] = <<>> <=> NameExtension(mFile.name) \notin ExtensionKeys
    /\ NameExtension(mFile.name) \in ExtensionKeys =>
         mResult[1] =
           Lookup(EXTENSION_MAP, NameExtension(mFile.name))[1].platforms
    /\ \A k \in 1..Len(mResult[1]) :
         \E n \in 1..Len(PLATFORMS) : PLATFORMS[n].name = mResult[1][k]


(***************************************************************************)
(* validateROM on a file named after its catalog entry                     *)
(***************************************************************************)
ExactExtensions == {Ext.egba, <<".", "a">>}

\* the file is named entry name + extension and has the digest of the entry
InitExact ==
  /\ \E n \in SeqsUpTo(EntryNameChars, MaxEntryNameLen) \ {<<>>} :
       \E e \in ExactExtensions :
         /\ mFile = [name |-> n \o e, size |-> SmallSize]
         /\ mEntries = <<[name |-> n, size |-> SmallSize, md5 |-> <<>>,
                          sha1 |-> <<>>, crc32 |-> HexUpper,
                          platform |-> <<"PSP">>]>>
  /\ mHashes = NameHashes
  /\ mResult = <<>>
  /\ baseline = <<>>
  /\ parse = <<>>
  /\ IdleLoader
  /\ IdleBatch
  /\ IdleUI

SpecExact == InitExact /\ [][Validate]_vars

\* C27: a file whose digest matches an entry and whose name is the entry's
\* name followed by the file's extension is reported valid, not renamed,
\* whatever the entry name is, also when it contains a period.
C27_EntryNamePlusExtensionIsValid ==
  (/\ mResult # <<>>
   /\ mResult[1].matchedIndex # 0
   /\ LastIndexOfDot(mFile.name) >= 0
   /\ mFile.name = mEntries[mResult[1].matchedIndex].name
                     \o Substring(mFile.name, LastIndexOfDot(mFile.name)))
  => mResult[1].status = "valid"


(***************************************************************************)
(* The platform carried by the entries loadPlatformDAT returns             *)
(***************************************************************************)
ReturnedByLoadPlatformDAT ==
  /\ lastLoad # <<>>
  /\ lastLoad[1].op = "loadPlatformDAT"
  /\ lastLoad[1].value.isArray

AllCarry(items, platform) ==
  \A k \in 1..Len(items) : items[k].platform = <<platform>>

\* C28, as claimed: every entry returned by loadPlatformDAT(P) carries
\* platform = P, also for P = Nintendo DS when the entries come from the
\* bundled variant.
C28_EntriesCarryThePlatformAsked ==
  ReturnedByLoadPlatformDAT =>
    AllCarry(lastLoad[1].value.items, lastLoad[1].platform)

\* C28, amended: every entry returned by loadPlatformDAT(P) carries
\* platform = P, except that for P = Nintendo DS the entries of the bundled
\* variant, returned when that variant is not empty, all carry the name of
\* the bundled catalog, "Nintendo DS Encrypted (Bundled)".
C28_EntriesCarryTheNameOfTheirCatalog ==
  ReturnedByLoadPlatformDAT =>
    \/ AllCarry(lastLoad[1].value.items, lastLoad[1].platform)
    \/ /\ lastLoad[1].platform = "Nintendo DS"
       /\ lastLoad[1].value.items # <<>>
       /\ AllCarry(lastLoad[1].value.items, BUNDLED_DATS[1])

C28_Witness ==
  /\ ReturnedByLoadPlatformDAT
  /\ lastLoad[1].platform = "Nintendo DS"
  /\ lastLoad[1].value.items # <<>>
  /\ AllCarry(lastLoad[1].value.items, BUNDLED_DATS[1])


(***************************************************************************)
(* Both cache tiers around a fetch                                         *)
(***************************************************************************)
\* what fetch answers: every source answers with a non-success status
NetRefused == [key \in SourceKeys |-> NotOk]

TierHosts ==
  {[net |-> NetBundled, sha1 |-> TRUE,  md5 |-> TRUE],
   [net |-> NetRefused, sha1 |-> TRUE,  md5 |-> TRUE],
   [net |-> NetDown,    sha1 |-> FALSE, md5 |-> FALSE]}

\* the durable tier empty, holding a fresh record, and out of quota
TierStores ==
  {<<>>,
   [key \in {<<"libretro", "PSP">>} |-> Record(CachedPSP, -12, CACHE_VERSION)],
   [key \in {OtherDataKey} |-> [bytes |-> "quota"]]}

InitTiers ==
  /\ IdleHarness
  /\ IdleUI
  /\ IdleBatch
  /\ datCache = <<>>
  /\ localStorage \in TierStores
  /\ now = 0
  /\ host \in TierHosts
  /\ lastLoad = <<>>

SpecTiers == InitTiers /\ [][NextLoader]_vars

LoadOps == {"loadPlatformDAT", "loadLibretroDAT", "loadBundledDAT"}

\* no key of tier after is new or holds another value than in tier before
NothingStored(before, after) ==
  \A key \in DOMAIN after : key \in DOMAIN before /\ after[key] = before[key]

\* C29: a load whose fetch throws or answers with a non-success status
\* stores nothing in the memory tier and nothing in the durable tier, for
\* the remote and the bundled source alike.
C29_FailedFetchStoresNothing ==
  [][(/\ now' = now
      /\ lastLoad' # <<>>
      /\ lastLoad'[1].op \in LoadOps
      /\ AllFetchesFailed(lastLoad'[1])) =>
       /\ NothingStored(datCache, datCache')
       /\ NothingStored(localStorage, localStorage')]_vars

\* the key under which the returned entries of the last load were fetched
FetchedKey == lastLoad[1].fetched[Len(lastLoad[1].fetched)]

FetchedAndParsed ==
  /\ lastLoad # <<>>
  /\ lastLoad[1].op \in LoadOps
  /\ lastLoad[1].from = "fetch"
  /\ host.net[FetchedKey].kind = "ok"

\* C30: after a load that fetched and parsed a catalog successfully, the
\* memory tier and the durable tier both hold the returned entries under
\* the key of that catalog.
C30_BothTiersHoldTheFetchedEntries ==
  FetchedAndParsed =>
    /\ FetchedKey \in DOMAIN datCache
    /\ datCache[FetchedKey].value = lastLoad[1].value
    /\ FetchedKey \in DOMAIN localStorage
    /\ localStorage[FetchedKey].entries = lastLoad[1].value


(***************************************************************************)
(* The order of the tiers in one load                                      *)
(***************************************************************************)
SingleSourceOps == {"loadLibretroDAT", "loadBundledDAT"}

\* the cache key a load of one source works under
LoadKey(rec) ==
  <<IF rec.op = "loadBundledDAT" THEN "bundled" ELSE "libretro", rec.platform>>

ValidRecord(store, key, t) == key \in DOMAIN store /\ ~Stale(store[key], t)

\* C31: a load that hits the memory tier returns the cached entries, leaves
\* the durable tier untouched and fetches nothing; a load that misses memory
\* and finds a valid durable record returns its entries without a fetch and
\* leaves them in the memory tier; a fetch happens only when both tiers miss.
C31_MemoryThenDurableThenFetch ==
  [][(/\ now' = now
      /\ lastLoad' # <<>>
      /\ lastLoad'[1].op \in SingleSourceOps) =>
       LET rec == lastLoad'[1]
           key == LoadKey(rec)
       IN  /\ key \in DOMAIN datCache =>
                /\ rec.value = datCache[key].value
                /\ rec.fetched = <<>>
                /\ localStorage' = localStorage
                /\ datCache' = datCache
           /\ (key \notin DOMAIN datCache
                 /\ ValidRecord(localStorage, key, now)) =>
                /\ rec.value = localStorage[key].entries
                /\ rec.fetched = <<>>
                /\ localStorage' = localStorage
                /\ key \in DOMAIN datCache'
                /\ datCache'[key].value = rec.value
           /\ rec.fetched # <<>> =>
                /\ key \notin DOMAIN datCache
                /\ ~ValidRecord(localStorage, key, now)]_vars

\* a memory hit over a durable record that has expired meanwhile
C31_WitnessMemory ==
  /\ lastLoad # <<>>
  /\ lastLoad[1].op = "loadLibretroDAT"
  /\ lastLoad[1].from = "memory"
  /\ LoadKey(lastLoad[1]) \in DOMAIN localStorage
  /\ Stale(localStorage[LoadKey(lastLoad[1])], now)

\* a durable hit promoted into the memory tier
C31_Witness ==
  /\ lastLoad # <<>>
  /\ lastLoad[1].op = "loadLibretroDAT"
  /\ lastLoad[1].from = "durable"
  /\ lastLoad[1].fetched = <<>>
  /\ LoadKey(lastLoad[1]) \in DOMAIN datCache
  /\ datCache[LoadKey(lastLoad[1])].value = lastLoad[1].value


(***************************************************************************)
(* Game and rom blocks of the line-oriented parser                         *)
(***************************************************************************)
MaxBlockLines == 4

\* the lines that open, fill and close blocks
BlockLines ==
  {Line("header", <<>>, FALSE), Line("close", <<>>, FALSE),
   Line("game", <<>>, FALSE), Line("game", <<<<"G">>>>, FALSE),
   Line("rom", <<<<"r">>>>, FALSE), Line("rom", <<>>, TRUE),
   Line("rom", <<<<"r">>>>, TRUE), Line("name", <<<<"N">>>>, FALSE),
   Line("crc", <<>>, FALSE)}

InitBlocks ==
  /\ mFile = [name |-> <<"a">>, size |-> [mb |-> 0, rem |-> 0]]
  /\ mHashes = [md5 |-> <<"0">>, sha1 |-> <<"0">>, crc32 |-> <<"0">>]
  /\ mEntries = <<>>
  /\ mResult = <<>>
  /\ baseline = <<>>
  /\ parse \in {<<ParserStart(lines, <<"PSP">>)>> :
                  lines \in SeqsUpTo(BlockLines, MaxBlockLines)}
  /\ IdleLoader
  /\ IdleBatch
  /\ IdleUI

SpecBlocks == InitBlocks /\ [][NextParse]_vars

\* C32: every entry pushed takes its digest fields from a rom block that was
\* opened inside the game block whose name it carries: no rom block left
\* open in an earlier game is pushed under the name of a later game.
C32_RomFieldsStayInTheirGame ==
  parse # <<>> =>
    \A k \in 1..Len(parse[1].origins) :
      parse[1].origins[k].opened = parse[1].origins[k].pushed

\* the line the step at hand reads
LineRead == parse[1].lines[parse[1].lineIndex]

\* the step is an iteration of the loop
Iteration ==
  /\ parse # <<>>
  /\ parse' # <<>>
  /\ parse'[1].lineIndex = parse[1].lineIndex + 1

\* what the closing lines do, from the locals p before the line to the
\* locals q after it
ClosingLines(p, q, line) ==
  LET closesRom == \/ line.kind = "rom" /\ line.closed /\ p.inGame
                   \/ line.kind = "close" /\ p.inRom
      romName == IF line.kind = "rom" THEN line.name ELSE p.currentRom.name
  IN  /\ closesRom =>
           /\ Len(q.entries) =
                IF romName # <<>> /\ p.currentGame.name # <<>>
                  THEN Len(p.entries) + 1
                  ELSE Len(p.entries)
           /\ SubSeq(q.entries, 1, Len(p.entries)) = p.entries
           /\ q.inGame
           /\ ~q.inRom
      /\ (line.kind = "close" /\ p.inGame /\ ~p.inRom) =>
           /\ ~q.inGame
           /\ q.currentGame = EmptyObject

\* C33 as stated: every rom block closed inside a game, by a rom-opening
\* line that ends the block itself or by a lone ")" line, pushes one entry
\* when game name and rom name are set and none otherwise, and leaves the
\* parser inside the game and outside a rom; a lone ")" inside a game and
\* outside a rom closes the game and resets the game record.
C33_ClosingLinesEndTheirBlock ==
  [][Iteration => ClosingLines(parse[1], parse'[1], LineRead)]_vars

\* C33 amended: the same for the lines read outside a header block; inside
\* one, every line is skipped and a lone ")" ends the header block only.
C33_ClosingLinesOutsideAHeader ==
  [][(Iteration /\ ~parse[1].inClrMameProHeader) =>
       ClosingLines(parse[1], parse'[1], LineRead)]_vars

\* a lone ")" has closed a rom block and pushed its entry, a second one has
\* closed the game
C33_Witness ==
  /\ parse # <<>>
  /\ Len(parse[1].entries) = 1
  /\ parse[1].lineIndex = 5
  /\ parse[1].lines[3].kind = "close"
  /\ parse[1].lines[4].kind = "close"
  /\ ~parse[1].inGame
  /\ ~parse[1].inRom

\* C34: an entry carries the first capture of a field made in its rom
\* block; every rom-opening line of BlockLines captures the digest LineCrc,
\* so that is the digest of every entry.
C34_FirstCaptureWins ==
  parse # <<>> =>
    \A k \in 1..Len(parse[1].entries) :
      parse[1].entries[k].crc32 = ToUpperCase(LineCrc)


(***************************************************************************)
(* Fetches made for one file                                               *)
(***************************************************************************)
\* the keys fetched by the steps of a trace, in order
RECURSIVE FetchedBy(_)
FetchedBy(tr) ==
  IF tr = <<>> THEN <<>> ELSE Head(tr).fetched \o FetchedBy(Tail(tr))

NoRepeat(seq) ==
  \A a, b \in 1..Len(seq) : seq[a] = seq[b] => a = b

\* C35: while validateROMs works on one file, no catalog source is fetched
\* a second time, also when no candidate matched and the fetch of the first
\* candidate failed.
C35_OneFetchPerSourceAndFile ==
  /\ NoRepeat(FetchedBy(trace))
  /\ \A k \in 1..Len(history) : NoRepeat(FetchedBy(history[k].trace))


(***************************************************************************)
(* A file without registry candidates                                      *)
(***************************************************************************)
NoCandidates(file) == getPlatformsForFile(file.name) = <<>>

\* what the load of the source AllSources[k] gives in the present state
Served(k) ==
  LET l == IF AllSources[k].source = "bundled"
             THEN loadBundledDAT(AllSources[k].platform, datCache,
                                 localStorage, now, host.net)
             ELSE loadLibretroDAT(AllSources[k].platform, datCache,
                                  localStorage, now, host.net)
  IN  l.value.items

\* the entries of the sources k..Len(AllSources), one collection after the
\* other
RECURSIVE ServedFrom(_)
ServedFrom(k) ==
  IF k > Len(AllSources) THEN <<>> ELSE Served(k) \o ServedFrom(k + 1)

\* every source was loaded: its catalog is in the memory tier, or its fetch
\* failed
EverySourceLoaded ==
  \A key \in SourceKeys : key \in DOMAIN datCache \/ FetchFailed(key)

C37_CancelledRunHasNoEffect ==
  cancelled # <<>> =>
    /\ fileStatus = AllStatus("pending")
    /\ validationResults = <<>>


(***************************************************************************)
(* The classifier and the candidate list of one file                       *)
(***************************************************************************)
\* file names: a stem with or without a platform hint, then an extension of
\* the registry, the same in upper case, or none
ClassifyStems ==
  {<<"a">>, <<"A">>, <<CapitalIDot>>, Kw.gc, Kw.dc, Kw.psp, Kw.ps2, Kw.wii,
   Kw.psx, Kw.dsi, Kw.demo}
ClassifyTails == ExtensionKeys \cup {<<>>, <<".", "I", "S", "O">>}
ClassifyNames == {s \o t : s \in ClassifyStems, t \in ClassifyTails}

\* file sizes on both sides of every size band
ClassifySizes == [mb : {0, 199, 200, 800, 900, 4500}, rem : {0, 1}]

InitClassify ==
  /\ mFile \in [name : ClassifyNames, size : ClassifySizes]
  /\ mHashes = [md5 |-> <<"0">>, sha1 |-> <<"0">>, crc32 |-> <<"0">>]
  /\ mEntries = <<>>
  /\ mResult = <<>>
  /\ baseline = <<>>
  /\ parse = <<>>
  /\ IdleLoader
  /\ IdleBatch
  /\ IdleUI

\* what validateROMs works out for a file before it loads a catalog: the
\* registry candidates, the classifier's guess, the ordered candidates, the
\* branch taken and the fallback platforms left unchecked
Classify ==
  /\ mResult = <<>>
  /\ \E forced \in BOOLEAN :
       LET platforms == getPlatformsForFile(mFile.name)
           guess == detectPlatformFromName(mFile.name, mFile.size)
           ordered == OrderedPlatforms(platforms, guess)
       IN  mResult' = <<[forced |-> forced, platforms |-> platforms,
                         guess |-> guess, ordered |-> ordered,
                         branch |-> Dispatch(mFile).pc,
                         unchecked |->
                           UncheckedPlatforms(mFile, forced, ordered)]>>
  /\ UNCHANGED <<mFile, mHashes, mEntries, baseline, parse, loaderVars,
                 batchVars, uiVars>>

SpecClassify == InitClassify /\ [][Classify]_vars

\* the platforms the registry lists for the extension of a name
Registered(name) ==
  IF NameExtension(name) \in ExtensionKeys
    THEN Lookup(EXTENSION_MAP, NameExtension(name))[1].platforms
    ELSE <<>>

\* C38: for a file name whose extension has several registry candidates, at
\* every size, the classifier's result is one of these candidates and the
\* ordered list starts with it; for an extension with one candidate the
\* classifier returns that candidate.
C38_GuessIsARegistryCandidate ==
  mResult # <<>> =>
    /\ Len(Registered(mFile.name)) > 1 =>
         /\ mResult[1].guess \in Range(Registered(mFile.name))
         /\ mResult[1].ordered # <<>>
         /\ mResult[1].ordered[1] = mResult[1].guess
    /\ Len(Registered(mFile.name)) = 1 =>
         mResult[1].guess = Registered(mFile.name)[1]

\* C39: for an .iso or .bin file no platform of the fallback list is left
\* unchecked after the candidates, forced platform or not, and the catalogs
\* the automatic detection consults are the registry candidates of the
\* extension.
C39_FallbackListAddsNothing ==
  (mResult # <<>> /\ NameExtension(mFile.name) \in {Ext.eiso, Ext.ebin}) =>
    /\ mResult[1].unchecked = <<>>
    /\ mResult[1].branch = "chain"
    /\ Range(mResult[1].ordered) = Range(Registered(mFile.name))

IsoHints == {Kw.gc, Kw.gamecube, Kw.ps2, Kw.playstation2, Kw.wii, Kw.psp}
BinHints ==
  {Kw.ps2, Kw.playstation2, Kw.ps1, Kw.psx, Kw.playstation, Kw.dreamcast,
   Kw.dc}

NoHint(name, hints) == \A h \in hints : ~Includes(ToLowerCase(name), h)

\* a size of mb megabytes and rem bytes is more than n megabytes
MoreThanMB(size, n) == size.mb > n \/ (size.mb = n /\ size.rem > 0)

\* the size bands: above 4500 MB, above 800 MB, from 200 MB, below
IsoBand(size) ==
  IF MoreThanMB(size, 4500) THEN "PlayStation 2"
  ELSE IF MoreThanMB(size, 800) THEN "Wii"
  ELSE IF size.mb < 200 THEN "PSP"
  ELSE "GameCube"
BinBand(size) ==
  IF MoreThanMB(size, 900) THEN "PlayStation 2" ELSE "PlayStation"

\* C40: an .iso or .bin file whose name holds no platform hint is classified
\* by its size alone into one band: for .iso PlayStation 2 above 4500 MB,
\* Wii above 800 MB up to 4500 MB, GameCube from 200 MB up to 800 MB, PSP
\* below 200 MB; for .bin PlayStation 2 above 900 MB, PlayStation otherwise.
C40_SizeBandsOfIsoAndBin ==
  mResult # <<>> =>
    /\ (NameExtension(mFile.name) = Ext.eiso
          /\ NoHint(mFile.name, IsoHints)) =>
         mResult[1].guess = IsoBand(mFile.size)
    /\ (NameExtension(mFile.name) = Ext.ebin
          /\ NoHint(mFile.name, BinHints)) =>
         mResult[1].guess = BinBand(mFile.size)

====
